---- MODULE Spec2Model ----
(***************************************************************************)
(* A model of the Story Weaver narrative pipeline of choiceStoryApp:       *)
(* the legacy services SceneSummarizer, ChoiceGenerator, ConsequenceMapper *)
(* and PathConvergence (backend/src/services), and the StoryWeaverAgent    *)
(* that runs them (backend/src/agents/StoryWeaverAgent.js).                *)
(*                                                                         *)
(* Indices are 0-based as in the source; a TLA+ sequence s holds the       *)
(* element of index i at s[i + 1].  Identifiers are the strings the code   *)
(* builds with its template literals.                                      *)
(***************************************************************************)
EXTENDS Integers, Sequences, FiniteSets, TLC

VARIABLES
    stage,            \* position of the pipeline run (the step of process())
    agentConfig,      \* the config object given to the constructors
    pathConfig,       \* PathConvergence's this.config
    persona,          \* persona key of the run
    chunks,           \* parsedChunks
    decisionPoints,   \* decisionPoints
    scenes,           \* summarizedScenes
    choiceSets,       \* choices
    consequences,     \* consequences
    altConsequences,  \* a second run's consequences: same choices, other values
    storyGraph,       \* the graph buildStoryGraph returns inside converge
    convergencePoints,\* the list identifyConvergencePoints returns inside converge
    structure,        \* storyStructure, the value converge returns
    altGraph,         \* second run: its graph
    altStructure,     \* second run: the value converge returns
    state,            \* the shared agent's this.state
    currentProject,   \* the shared agent's this.currentProject
    uuidCount,        \* number of identifiers uuidv4() has returned
    clock,            \* the value Date.now() returns
    pc,               \* per process() invocation: the await it is suspended at
    input,            \* per invocation: its argument
    own,              \* per invocation: the id and start time it created
    result,           \* per invocation: the value it returned
    emitted,          \* per invocation: the events it emitted on the agent
    listening,        \* whether listeners are attached to the agent
    lastHeard,        \* the last event the listeners were called with
    activeProcesses,  \* the server's process table, per invocation's process id
    toolStage,        \* position of a run of TextParser.parse
    parserConfig,     \* TextParser's this.config
    bookContent,      \* the text given to parse, a sequence of characters
    parsedChunks,     \* the chunks parse returned
    detectorConfig,   \* DecisionPointDetector's this.config
    layoutChunks,     \* the chunks given to detect: what each sentence matches
    detected          \* what detect returned, and whether it warned

pipeVars == <<stage, agentConfig, pathConfig, persona, chunks, decisionPoints,
              scenes, choiceSets, consequences, altConsequences, storyGraph,
              convergencePoints, structure, altGraph, altStructure>>

agentVars == <<state, currentProject, uuidCount, clock, pc, input, own, result,
               emitted, listening, lastHeard, activeProcesses>>

toolVars == <<toolStage, parserConfig, bookContent, parsedChunks,
              detectorConfig, layoutChunks, detected>>

vars == <<pipeVars, agentVars, toolVars>>

-----------------------------------------------------------------------------
(* Bounds of the model.                                                    *)

MaxChunks == 9
MaxLastSentences == 4
MaxBuffer == 2
MaxClock == 3
MaxSentences == 4
MaxSentenceLen == 5
MaxOverlap == 6
MaxLayout == 6
LayoutChunkLen == 4
MaxPoints == 2
MaxMapChoices == 2
MaxAnalyzed == 3
FullChunkSentences == 7
SectionChunks == 2

(* Program constants.                                                      *)

DefaultMaxPointsPerChunk == 3
MinPointSpacing == 3

-----------------------------------------------------------------------------
(* Helpers on sequences and strings.                                       *)

Min(a, b) == IF a < b THEN a ELSE b
Max(a, b) == IF a > b THEN a ELSE b

Has(config, key) == key \in DOMAIN config

NoConfig == [k \in {} |-> 0]

\* Array.prototype.join(sep) on an array of strings
RECURSIVE Join(_, _)
Join(strs, sep) ==
    IF Len(strs) = 0 THEN ""
    ELSE IF Len(strs) = 1 THEN strs[1]
    ELSE strs[1] \o sep \o Join(Tail(strs), sep)

\* Array.prototype.slice(-n): the last n elements (all of them when fewer)
SliceLast(arr, n) == SubSeq(arr, Max(Len(arr) - n, 0) + 1, Len(arr))

\* Array.prototype.filter
Filter(arr, Keep(_)) ==
    LET F[i \in 0..Len(arr)] ==
            IF i = 0 THEN <<>>
            ELSE IF Keep(arr[i]) THEN Append(F[i - 1], arr[i]) ELSE F[i - 1]
    IN  F[Len(arr)]

\* concatenation of a sequence of sequences
RECURSIVE Flatten(_)
Flatten(seqs) ==
    IF Len(seqs) = 0 THEN <<>> ELSE Head(seqs) \o Flatten(Tail(seqs))

\* Op applied to the value of v (v is evaluated once)
With(v, Op(_)) == CHOOSE r \in {Op(x) : x \in {v}} : TRUE

\* Array.prototype.find as a position: the first i with Test(arr[i]), 0 if none
FindPos(arr, Test(_)) ==
    With({i \in 1..Len(arr) : Test(arr[i])}, LAMBDA hits :
        IF hits = {} THEN 0 ELSE CHOOSE i \in hits : \A j \in hits : i <= j)

-----------------------------------------------------------------------------
(* Step 2: the chunks TextParser.parse returns.  A chunk list is given by  *)
(* its number of chunks, the number of sentences of its last chunk and     *)
(* which of its sections are chapters; a section holds SectionChunks       *)
(* chunks (the last one what is left).                                     *)

ChapterPatterns == {"none", "all", "alternate"}

IsChapterSection(pattern, sectionIndex) ==
    CASE pattern = "none" -> FALSE
      [] pattern = "all" -> TRUE
      [] OTHER -> sectionIndex % 2 = 0

ChunkSentences(index, count) ==
    [j \in 1..count |-> "c" \o ToString(index) \o "s" \o ToString(j - 1) \o "."]

ParsedChunk(index, numChunks, lastLen, pattern) ==
    LET sectionIndex == index \div SectionChunks
        first == index % SectionChunks = 0
        last == (index % SectionChunks = SectionChunks - 1) \/ index = numChunks - 1
        count == IF index = numChunks - 1 THEN lastLen ELSE FullChunkSentences
    IN  [id |-> "chunk_" \o ToString(index),
         index |-> index,
         sectionIndex |-> sectionIndex,
         sentences |-> ChunkSentences(index, count),
         metadata |-> [isChapterStart |-> first /\ IsChapterSection(pattern, sectionIndex),
                       isChapterEnd |-> last /\ IsChapterSection(pattern, sectionIndex)]]

ParsedChunks(numChunks, lastLen, pattern) ==
    [i \in 1..numChunks |-> ParsedChunk(i - 1, numChunks, lastLen, pattern)]

-----------------------------------------------------------------------------
(* Step 3: the decision points DecisionPointDetector.detect returns: at    *)
(* most maxPointsPerChunk per chunk, MinPointSpacing sentences apart, in   *)
(* document order, each with a category of the detector.                   *)

Categories ==
    <<"Moral & Ethical Crossroads", "Strategic or Tactical Choices",
      "Time-Pressure Scenarios", "Relationship & Trust Conflicts",
      "Information & Knowledge Risks", "General Choice Point">>

\* how many points, MinPointSpacing apart from sentence 0 on, a chunk can hold
ChunkCapacity(chunk) ==
    Min(DefaultMaxPointsPerChunk,
        (Len(chunk.sentences) + MinPointSpacing - 1) \div MinPointSpacing)

RECURSIVE TotalCapacity(_)
TotalCapacity(cs) ==
    IF Len(cs) = 0 THEN 0 ELSE ChunkCapacity(Head(cs)) + TotalCapacity(Tail(cs))

DetectedPoint(cs, j) ==
    LET chunk == cs[(j \div DefaultMaxPointsPerChunk) + 1]
        sentenceIndex == MinPointSpacing * (j % DefaultMaxPointsPerChunk)
    IN  [id |-> "dp_" \o chunk.id \o "_" \o ToString(sentenceIndex) \o "_"
                 \o ToString(j % DefaultMaxPointsPerChunk),
         category |-> Categories[(j % Len(Categories)) + 1],
         sentenceIndex |-> sentenceIndex,
         chunkId |-> chunk.id,
         chunkIndex |-> chunk.index]

DetectedPoints(cs, n) == [j \in 1..n |-> DetectedPoint(cs, j - 1)]

-----------------------------------------------------------------------------
(* Step 4: SceneSummarizer.summarize.  One scene per decision point whose  *)
(* chunk is found; the summary text is not modelled.                       *)

summarize(cs, points) ==
    With(Filter(points, LAMBDA point :
             \E i \in 1..Len(cs) : cs[i].id = point.chunkId),
         LAMBDA found :
            [i \in 1..Len(found) |->
                [id |-> "scene_" \o found[i].id,
                 decisionPointId |-> found[i].id,
                 chunkId |-> found[i].chunkId]])

-----------------------------------------------------------------------------
(* Step 5: ChoiceGenerator.                                                *)

ChoiceGeneratorConfig(config) ==
    LET defaults == [minChoices |-> IF Has(config, "minChoices") /\ config.minChoices # 0
                                    THEN config.minChoices ELSE 2,
                     maxChoices |-> IF Has(config, "maxChoices") /\ config.maxChoices # 0
                                    THEN config.maxChoices ELSE 4]
    IN  [k \in DOMAIN defaults \cup DOMAIN config |->
            IF k \in DOMAIN config THEN config[k] ELSE defaults[k]]

\* the type tags of the templates of a category, in table order
getChoiceTemplates(category) ==
    CASE category = "Moral & Ethical Crossroads" ->
            <<"moral_high", "moral_low", "moral_compromise", "moral_emotional">>
      [] category = "Strategic or Tactical Choices" ->
            <<"tactical_direct", "tactical_stealth", "tactical_wait", "tactical_creative">>
      [] category = "Time-Pressure Scenarios" ->
            <<"time_immediate", "time_think", "time_help">>
      [] category = "Relationship & Trust Conflicts" ->
            <<"trust_full", "trust_partial", "trust_none", "trust_test">>
      [] category = "Information & Knowledge Risks" ->
            <<"info_share", "info_hide", "info_partial", "info_leverage">>
      [] OTHER ->
            <<"general_forward", "general_back", "general_alternative">>

generateChoicesForPoint(cfg, scene, decisionPoint) ==
    LET templates == getChoiceTemplates(decisionPoint.category)
        numChoices == Min(Len(templates), cfg.maxChoices)
    IN  [i \in 1..numChoices |->
            [id |-> "choice_" \o scene.id \o "_" \o ToString(i - 1),
             type |-> templates[i]]]

generate(cfg, ss, points) ==
    With(Filter(ss, LAMBDA scene :
             \E i \in 1..Len(points) : points[i].id = scene.decisionPointId),
         LAMBDA withPoint :
            [i \in 1..Len(withPoint) |->
                With(points[FindPos(points, LAMBDA dp :
                                dp.id = withPoint[i].decisionPointId)],
                     LAMBDA decisionPoint :
                        [id |-> "choices_" \o withPoint[i].id,
                         sceneId |-> withPoint[i].id,
                         decisionPointId |-> decisionPoint.id,
                         choices |-> generateChoicesForPoint(cfg, withPoint[i],
                                                             decisionPoint)])])

-----------------------------------------------------------------------------
(* Step 6: ConsequenceMapper.                                              *)

PersonaKeys == {"classic", "adventurous", "playful", "objective"}

ConsequenceTextTypes ==
    {"moral_high", "moral_low", "moral_compromise", "tactical_direct",
     "tactical_stealth", "tactical_wait", "time_immediate", "time_think",
     "trust_full", "trust_partial", "info_share", "info_hide",
     "general_forward", "general_back", "general_alternative"}

\* the names every object literal inherits from Object.prototype: a lookup
\* table[name] of a table without that key gives the inherited member
ObjectPrototypeKeys ==
    {"constructor", "toString", "toLocaleString", "valueOf", "hasOwnProperty",
     "isPrototypeOf", "propertyIsEnumerable", "__proto__", "__defineGetter__",
     "__defineSetter__", "__lookupGetter__", "__lookupSetter__"}

\* the member of Object.prototype a lookup finds: a function or, for
\* __proto__, an object; neither is a string
Inherited(name) == "Object.prototype." \o name

\* the text as the template chosen and the persona styling applied to it
generateConsequenceText(choice, personaKey) ==
    [template |-> IF choice.type \in ConsequenceTextTypes THEN choice.type
                  ELSE IF choice.type \in ObjectPrototypeKeys THEN Inherited(choice.type)
                  ELSE "default",
     styling |-> IF personaKey \in PersonaKeys THEN personaKey ELSE "plain"]

\* text.replace (playful) and text.toLowerCase (classic) are called on the
\* template found: a TypeError when it is not a string
generateConsequenceTextThrows(choice, personaKey) ==
    /\ choice.type \in ObjectPrototypeKeys
    /\ personaKey \in {"playful", "classic"}

determineConsequenceType(choiceType) ==
    CASE choiceType = "moral_high" -> "positive_growth"
      [] choiceType = "moral_low" -> "temporary_relief"
      [] choiceType = "tactical_direct" -> "immediate_progress"
      [] choiceType = "tactical_stealth" -> "hidden_advantage"
      [] choiceType = "time_immediate" -> "crisis_averted"
      [] choiceType = "trust_full" -> "relationship_strengthened"
      [] choiceType = "info_share" -> "knowledge_spread"
      [] choiceType \in ObjectPrototypeKeys -> Inherited(choiceType)
      [] OTHER -> "neutral_development"

determineEmotionalTone(choiceType) ==
    CASE choiceType = "moral_high" -> "uplifting"
      [] choiceType = "moral_low" -> "uncertain"
      [] choiceType = "moral_compromise" -> "balanced"
      [] choiceType = "tactical_direct" -> "exciting"
      [] choiceType = "tactical_stealth" -> "tense"
      [] choiceType = "time_immediate" -> "relieved"
      [] choiceType = "trust_full" -> "warm"
      [] choiceType = "trust_partial" -> "cautious"
      [] choiceType = "info_share" -> "open"
      [] choiceType = "info_hide" -> "secretive"
      [] choiceType \in ObjectPrototypeKeys -> Inherited(choiceType)
      [] OTHER -> "neutral"

\* the multipliers are kept as the decimal literals of the source
getSceneModifier(choiceType) ==
    CASE choiceType = "moral_high" -> [mood |-> "positive", trust |-> "1.2"]
      [] choiceType = "moral_low" -> [mood |-> "uncertain", trust |-> "0.8"]
      [] choiceType = "tactical_direct" -> [pace |-> "fast", tension |-> "1.1"]
      [] choiceType = "tactical_stealth" -> [pace |-> "slow", awareness |-> "1.3"]
      [] choiceType = "time_immediate" -> [pace |-> "rushed", detail |-> "0.7"]
      [] choiceType = "trust_full" -> [relationships |-> "1.3", vulnerability |-> "1.2"]
      [] choiceType = "info_share" -> [knowledge |-> "1.2", exposure |-> "1.1"]
      [] choiceType \in ObjectPrototypeKeys -> [inherited |-> Inherited(choiceType)]
      [] OTHER -> [mood |-> "neutral", pace |-> "normal"]

\* a mapping whose tone follows the persona
mapChoiceSetConsequences_PersonaTone(choiceSet, personaKey) ==
    [i \in 1..Len(choiceSet.choices) |->
        LET choice == choiceSet.choices[i]
        IN  [id |-> "consequence_" \o choice.id,
             choiceId |-> choice.id,
             text |-> generateConsequenceText(choice, personaKey),
             type |-> determineConsequenceType(choice.type),
             duration |-> "temporary",
             emotionalTone |-> IF personaKey = "playful" THEN "exciting"
                               ELSE determineEmotionalTone(choice.type),
             nextSceneModifier |-> getSceneModifier(choice.type)]]

mapChoiceSetConsequences(choiceSet, personaKey) ==
    [i \in 1..Len(choiceSet.choices) |->
        LET choice == choiceSet.choices[i]
        IN  [id |-> "consequence_" \o choice.id,
             choiceId |-> choice.id,
             text |-> generateConsequenceText(choice, personaKey),
             type |-> determineConsequenceType(choice.type),
             duration |-> "temporary",
             emotionalTone |-> determineEmotionalTone(choice.type),
             nextSceneModifier |-> getSceneModifier(choice.type)]]

\* map rethrows what mapChoiceSetConsequences throws for a choice set
\* that has its scene
mapThrows(css, ss, personaKey) ==
    \E i \in 1..Len(css) :
        /\ \E j \in 1..Len(ss) : ss[j].id = css[i].sceneId
        /\ \E k \in 1..Len(css[i].choices) :
              generateConsequenceTextThrows(css[i].choices[k], personaKey)

map(css, ss, personaKey) ==
    With(Filter(css, LAMBDA choiceSet :
             \E i \in 1..Len(ss) : ss[i].id = choiceSet.sceneId),
         LAMBDA withScene :
            [i \in 1..Len(withScene) |->
                [id |-> "consequences_" \o withScene[i].id,
                 choiceSetId |-> withScene[i].id,
                 sceneId |-> ss[FindPos(ss, LAMBDA scene :
                                    scene.id = withScene[i].sceneId)].id,
                 consequences |-> mapChoiceSetConsequences(withScene[i], personaKey)]])

-----------------------------------------------------------------------------
(* Step 7: PathConvergence.                                                *)

Undefined == [undefined |-> TRUE]
Null == [null |-> TRUE]
\* the two requests whose process() invocations overlap
Invocations == {1, 2}

\* a constructor that stops at the defaults (no ...config)
PathConvergenceConfig_NoSpread(config) ==
    [maxBranchDepth |-> IF Has(config, "maxBranchDepth") /\ config.maxBranchDepth # 0
                        THEN config.maxBranchDepth ELSE 3,
     convergenceBuffer |-> IF Has(config, "convergenceBuffer")
                              /\ config.convergenceBuffer # 0
                           THEN config.convergenceBuffer ELSE 2]

\* constructor: the defaults, then every key of config spread over them
PathConvergenceConfig(config) ==
    LET defaults ==
            [maxBranchDepth |-> IF Has(config, "maxBranchDepth") /\ config.maxBranchDepth # 0
                                THEN config.maxBranchDepth ELSE 3,
             convergenceBuffer |-> IF Has(config, "convergenceBuffer")
                                      /\ config.convergenceBuffer # 0
                                   THEN config.convergenceBuffer ELSE 2]
    IN  [k \in DOMAIN defaults \cup DOMAIN config |->
            IF k \in DOMAIN config THEN config[k] ELSE defaults[k]]

shouldConverge(cfg, sceneIndex, totalScenes) ==
    IF sceneIndex >= totalScenes - cfg.convergenceBuffer
    THEN TRUE
    ELSE LET interval == Max(3, totalScenes \div 5)
         IN  sceneIndex % interval = 0

\* variants of toSceneId: one branch variant for all the choices of a scene,
\* the ending one scene early, and a target that follows the consequence
toSceneId_SameBranch(cfg, ss, index, fromIndex, choiceIndex, consequence) ==
    IF index < Len(ss) - 1
    THEN IF shouldConverge(cfg, fromIndex, Len(ss))
         THEN ss[index + 2].id
         ELSE ss[index + 2].id \o "_branch_" \o ToString(index)
    ELSE "scene_ending"

toSceneId_EarlyEnding(cfg, ss, index, fromIndex, choiceIndex, consequence) ==
    IF index < Len(ss) - 2
    THEN IF shouldConverge(cfg, fromIndex, Len(ss))
         THEN ss[index + 2].id
         ELSE ss[index + 2].id \o "_branch_" \o ToString(choiceIndex)
    ELSE "scene_ending"

toSceneId_ByConsequence(cfg, ss, index, fromIndex, choiceIndex, consequence) ==
    IF index < Len(ss) - 1
    THEN IF shouldConverge(cfg, fromIndex, Len(ss))
            \/ consequence.emotionalTone = "exciting"
         THEN ss[index + 2].id
         ELSE ss[index + 2].id \o "_branch_" \o ToString(choiceIndex)
    ELSE "scene_ending"

\* the target of the edge of choice choiceIndex of the choice set at position
\* index, whose scene is the node of index fromIndex
toSceneId(cfg, ss, index, fromIndex, choiceIndex, consequence) ==
    IF index < Len(ss) - 1
    THEN IF shouldConverge(cfg, fromIndex, Len(ss))
         THEN ss[index + 2].id
         ELSE ss[index + 2].id \o "_branch_" \o ToString(choiceIndex)
    ELSE "scene_ending"

\* graph.nodes: a Map keyed by scene id; a later scene of the same id replaces
\* the earlier one
GraphNodes(ss) ==
    [id \in {ss[i].id : i \in 1..Len(ss)} |->
        [id |-> id,
         index |-> (CHOOSE i \in 1..Len(ss) :
                      ss[i].id = id /\ \A j \in (i + 1)..Len(ss) : ss[j].id # id) - 1]]

ChoiceSetEdges(cfg, ss, cons, nodes, choiceSet, index) ==
    With(FindPos(cons, LAMBDA c : c.choiceSetId = choiceSet.id), LAMBDA pos :
        IF choiceSet.sceneId \notin DOMAIN nodes THEN <<>>
        ELSE IF pos = 0 THEN <<>>
        ELSE [k \in 1..Len(choiceSet.choices) |->
                LET consequence == IF k <= Len(cons[pos].consequences)
                                   THEN cons[pos].consequences[k] ELSE Undefined
                IN  [id |-> "edge_" \o choiceSet.choices[k].id,
                     from |-> nodes[choiceSet.sceneId].id,
                     to |-> toSceneId(cfg, ss, index, nodes[choiceSet.sceneId].index,
                                      k - 1, consequence),
                     choice |-> choiceSet.choices[k],
                     consequence |-> consequence]])

buildStoryGraph(cfg, ss, css, cons) ==
    With(GraphNodes(ss), LAMBDA nodes :
        [nodes |-> nodes,
         edges |-> Flatten([i \in 1..Len(css) |->
                       ChoiceSetEdges(cfg, ss, cons, nodes, css[i], i - 1)])])

\* Array.prototype.sort((a, b) => a.afterSceneIndex - b.afterSceneIndex): stable
SortByAfterSceneIndex(points) ==
    LET Insert(sorted, p) ==
            LET k == Cardinality({j \in 1..Len(sorted) :
                         sorted[j].afterSceneIndex <= p.afterSceneIndex})
            IN  SubSeq(sorted, 1, k) \o <<p>> \o SubSeq(sorted, k + 1, Len(sorted))
        F[i \in 0..Len(points)] ==
            IF i = 0 THEN <<>> ELSE Insert(F[i - 1], points[i])
    IN  F[Len(points)]

\* a deduplication that keeps the last point of an index
deduplicateConvergencePoints_KeepLast(points) ==
    LET F[i \in 0..Len(points)] ==
            IF i = 0 THEN <<>>
            ELSE IF \E j \in (i + 1)..Len(points) :
                        points[j].afterSceneIndex = points[i].afterSceneIndex
                 THEN F[i - 1]
                 ELSE Append(F[i - 1], points[i])
    IN  F[Len(points)]

deduplicateConvergencePoints(points) ==
    LET F[i \in 0..Len(points)] ==
            IF i = 0 THEN <<>>
            ELSE IF \E j \in 1..(i - 1) :
                        points[j].afterSceneIndex = points[i].afterSceneIndex
                 THEN F[i - 1]
                 ELSE Append(F[i - 1], points[i])
    IN  F[Len(points)]

identifyConvergencePoints(graph, originalChunks) ==
    LET totalScenes == Cardinality(DOMAIN graph.nodes)
        chapter ==
            With(Filter(originalChunks, LAMBDA chunk :
                     chunk.metadata.isChapterStart \/ chunk.metadata.isChapterEnd),
                 LAMBDA boundaryChunks :
                    [i \in 1..Len(boundaryChunks) |->
                        [id |-> "convergence_chapter_"
                                    \o ToString(boundaryChunks[i].index),
                         type |-> "chapter_boundary",
                         afterSceneIndex |-> boundaryChunks[i].index]])
        convergenceInterval == Max(3, totalScenes \div 5)
        periodicCount == IF totalScenes = 0 THEN 0
                         ELSE (totalScenes - 1) \div convergenceInterval
        periodic == [m \in 1..periodicCount |->
                        [id |-> "convergence_periodic_" \o ToString(m * convergenceInterval),
                         type |-> "periodic",
                         afterSceneIndex |-> m * convergenceInterval]]
        preEnding == IF totalScenes > 3
                     THEN <<[id |-> "convergence_pre_ending",
                             type |-> "pre_ending",
                             afterSceneIndex |-> totalScenes - 3]>>
                     ELSE <<>>
    IN  deduplicateConvergencePoints(
            SortByAfterSceneIndex(chapter \o periodic \o preEnding))

determineNextScenes(cfg, choiceSet, currentIndex, totalScenes) ==
    IF choiceSet = Undefined \/ currentIndex >= totalScenes - 1
    THEN <<"scene_ending">>
    ELSE IF shouldConverge(cfg, currentIndex, totalScenes)
         THEN [i \in 1..Len(choiceSet.choices) |->
                  "scene_" \o ToString(currentIndex + 1)]
         ELSE [i \in 1..Len(choiceSet.choices) |->
                  "scene_" \o ToString(currentIndex + 1) \o "_branch_" \o ToString(i - 1)]

formatScenes(cfg, ss, css, cons, points) ==
    [i \in 1..Len(ss) |->
        With(<<FindPos(css, LAMBDA cs : cs.sceneId = ss[i].id),
               FindPos(cons, LAMBDA c : c.sceneId = ss[i].id),
               FindPos(points, LAMBDA cp : cp.afterSceneIndex = i - 1)>>,
             LAMBDA pos :
                [id |-> ss[i].id,
                 decisionPointId |-> ss[i].decisionPointId,
                 chunkId |-> ss[i].chunkId,
                 choices |-> IF pos[1] # 0 THEN css[pos[1]].choices ELSE <<>>,
                 consequences |-> IF pos[2] # 0 THEN cons[pos[2]].consequences ELSE <<>>,
                 isConvergencePoint |-> pos[3] # 0,
                 convergenceInfo |-> IF pos[3] # 0 THEN points[pos[3]] ELSE Undefined,
                 nextScenes |-> determineNextScenes(cfg,
                                    IF pos[1] # 0 THEN css[pos[1]] ELSE Undefined,
                                    i - 1, Len(ss))])]

createConvergenceMap(points) ==
    [idx \in {points[i].afterSceneIndex : i \in 1..Len(points)} |->
        LET point == points[
                CHOOSE i \in 1..Len(points) :
                    points[i].afterSceneIndex = idx
                    /\ \A j \in (i + 1)..Len(points) :
                           points[j].afterSceneIndex # idx]
        IN  [id |-> point.id, type |-> point.type]]

\* an ending made of the first sentences of the last chunk
extractEnding_FirstSentences(cs) ==
    IF Len(cs) = 0
    THEN [content |-> "The End", isOriginal |-> FALSE]
    ELSE LET lastChunk == cs[Len(cs)]
             endingSentences == SubSeq(lastChunk.sentences, 1,
                                       Min(3, Len(lastChunk.sentences)))
         IN  [content |-> Join(endingSentences, " "),
              isOriginal |-> TRUE,
              chunkId |-> lastChunk.id]

extractEnding(cs) ==
    IF Len(cs) = 0
    THEN [content |-> "The End", isOriginal |-> FALSE]
    ELSE LET lastChunk == cs[Len(cs)]
             endingSentences == SliceLast(lastChunk.sentences, 3)
         IN  [content |-> Join(endingSentences, " "),
              isOriginal |-> TRUE,
              chunkId |-> lastChunk.id]

calculateMaxDepth(cfg) == Min(cfg.maxBranchDepth, 3)

RECURSIVE TotalChoices(_)
TotalChoices(css) ==
    IF Len(css) = 0 THEN 0 ELSE Len(Head(css).choices) + TotalChoices(Tail(css))

\* converge, given the graph and the convergence points its first two
\* statements computed
convergeWith(cfg, graph, points, ss, css, cons, originalChunks) ==
        [metadata |-> [totalScenes |-> Len(ss),
                       totalChoices |-> TotalChoices(css),
                       convergencePoints |-> Len(points),
                       maxBranchDepth |-> calculateMaxDepth(cfg)],
         startScene |-> IF Len(ss) > 0 THEN ss[1].id ELSE "scene_start",
         scenes |-> formatScenes(cfg, ss, css, cons, points),
         convergenceMap |-> createConvergenceMap(points),
         ending |-> extractEnding(originalChunks)]

converge(cfg, ss, css, cons, originalChunks) ==
    With(buildStoryGraph(cfg, ss, css, cons), LAMBDA graph :
        With(identifyConvergencePoints(graph, originalChunks), LAMBDA points :
            convergeWith(cfg, graph, points, ss, css, cons, originalChunks)))

-----------------------------------------------------------------------------
(* The pipeline run of StoryWeaverAgent.process with the services of       *)
(* backend/src/services (useEnhancedTools = false), one action per step.   *)

AgentConfigs ==
    {NoConfig} \cup {[convergenceBuffer |-> b] : b \in 0..MaxBuffer}

\* a second run's consequences for the same choices: every value that
\* ConsequenceMapper derives is the one of another choice type and persona
AltType == "tactical_direct"
AltPersona == "objective"

AltConsequences(cons, altType, altPersona) ==
    [i \in 1..Len(cons) |->
        [cons[i] EXCEPT !.consequences =
            [k \in 1..Len(cons[i].consequences) |->
                [cons[i].consequences[k] EXCEPT
                    !.text = generateConsequenceText([type |-> altType], altPersona),
                    !.type = determineConsequenceType(altType),
                    !.emotionalTone = determineEmotionalTone(altType),
                    !.nextSceneModifier = getSceneModifier(altType)]]]]

\* no service has been called on its own
ParserIdle ==
    /\ parserConfig = NoConfig
    /\ bookContent = <<>>
    /\ parsedChunks = <<>>

DetectorIdle ==
    /\ detectorConfig = NoConfig
    /\ layoutChunks = <<>>
    /\ detected = Null

ToolsIdle ==
    /\ toolStage = "idle"
    /\ ParserIdle
    /\ DetectorIdle

\* the agent after its constructor, no process() invocation started
AgentConstructed ==
    /\ state = "idle"
    /\ currentProject = Null
    /\ uuidCount = 0
    /\ clock = 0
    /\ pc = [p \in Invocations |-> "not_started"]
    /\ input = [p \in Invocations |-> Null]
    /\ own = [p \in Invocations |-> Null]
    /\ result = [p \in Invocations |-> Null]
    /\ emitted = [p \in Invocations |-> <<>>]
    /\ lastHeard = Null
    /\ activeProcesses = [p \in Invocations |-> Null]

Init ==
    /\ AgentConstructed
    /\ ToolsIdle
    /\ listening = FALSE
    /\ stage = "idle"
    /\ agentConfig \in AgentConfigs
    /\ pathConfig = PathConvergenceConfig(agentConfig)
    /\ persona = "adventurous"
    /\ chunks = <<>>
    /\ decisionPoints = <<>>
    /\ scenes = <<>>
    /\ choiceSets = <<>>
    /\ consequences = <<>>
    /\ altConsequences = <<>>
    /\ storyGraph = Undefined
    /\ convergencePoints = <<>>
    /\ structure = Undefined
    /\ altGraph = Undefined
    /\ altStructure = Undefined

\* step 2: this.textParser.parse(bookContent)
ParseText ==
    /\ stage = "idle"
    /\ \E numChunks \in 1..MaxChunks, lastLen \in 1..MaxLastSentences,
          pattern \in ChapterPatterns :
          chunks' = ParsedChunks(numChunks, lastLen, pattern)
    /\ stage' = "parsed"
    /\ UNCHANGED <<agentConfig, pathConfig, persona, decisionPoints, scenes, choiceSets,
                   consequences, altConsequences, storyGraph, convergencePoints,
                   structure, altGraph, altStructure>>
    /\ UNCHANGED agentVars
    /\ UNCHANGED toolVars

\* step 3: this.decisionPointDetector.detect(parsedChunks)
DetectPoints ==
    /\ stage = "parsed"
    /\ \E n \in 0..TotalCapacity(chunks) :
          decisionPoints' = DetectedPoints(chunks, n)
    /\ stage' = "detected"
    /\ UNCHANGED <<agentConfig, pathConfig, persona, chunks, scenes, choiceSets,
                   consequences, altConsequences, storyGraph, convergencePoints,
                   structure, altGraph, altStructure>>
    /\ UNCHANGED agentVars
    /\ UNCHANGED toolVars

\* step 4: this.sceneSummarizer.summarize(parsedChunks, decisionPoints, ...)
Summarize ==
    /\ stage = "detected"
    /\ scenes' = summarize(chunks, decisionPoints)
    /\ stage' = "summarized"
    /\ UNCHANGED <<agentConfig, pathConfig, persona, chunks, decisionPoints,
                   choiceSets, consequences, altConsequences, storyGraph,
                   convergencePoints, structure, altGraph, altStructure>>
    /\ UNCHANGED agentVars
    /\ UNCHANGED toolVars

\* step 5: this.choiceGenerator.generate(summarizedScenes, decisionPoints, ...)
GenerateChoices ==
    /\ stage = "summarized"
    /\ choiceSets' = generate(ChoiceGeneratorConfig(agentConfig), scenes, decisionPoints)
    /\ stage' = "generated"
    /\ UNCHANGED <<agentConfig, pathConfig, persona, chunks, decisionPoints, scenes,
                   consequences, altConsequences, storyGraph, convergencePoints,
                   structure, altGraph, altStructure>>
    /\ UNCHANGED agentVars
    /\ UNCHANGED toolVars

\* step 6: this.consequenceMapper.map(choices, summarizedScenes, persona)
MapConsequences ==
    /\ stage = "generated"
    /\ IF mapThrows(choiceSets, scenes, persona)
       THEN /\ stage' = "failed"
            /\ UNCHANGED <<consequences, altConsequences>>
       ELSE /\ consequences' = map(choiceSets, scenes, persona)
            /\ altConsequences' = AltConsequences(consequences', AltType, AltPersona)
            /\ stage' = "mapped"
    /\ UNCHANGED <<agentConfig, pathConfig, persona, chunks, decisionPoints, scenes,
                   choiceSets, storyGraph, convergencePoints, structure, altGraph,
                   altStructure>>
    /\ UNCHANGED agentVars
    /\ UNCHANGED toolVars

\* step 7: this.pathConvergence.converge(summarizedScenes, choices,
\* consequences, parsedChunks), for the run and for the second run
Converge ==
    /\ stage = "mapped"
    /\ storyGraph' = buildStoryGraph(pathConfig, scenes, choiceSets, consequences)
    /\ convergencePoints' = identifyConvergencePoints(storyGraph', chunks)
    /\ structure' = convergeWith(pathConfig, storyGraph', convergencePoints', scenes,
                                 choiceSets, consequences, chunks)
    /\ altGraph' = buildStoryGraph(pathConfig, scenes, choiceSets, altConsequences)
    /\ altStructure' = converge(pathConfig, scenes, choiceSets, altConsequences, chunks)
    /\ stage' = "converged"
    /\ UNCHANGED <<agentConfig, pathConfig, persona, chunks, decisionPoints, scenes,
                   choiceSets, consequences, altConsequences>>
    /\ UNCHANGED agentVars
    /\ UNCHANGED toolVars

Next ==
    \/ ParseText
    \/ DetectPoints
    \/ Summarize
    \/ GenerateChoices
    \/ MapConsequences
    \/ Converge

Spec == Init /\ [][Next]_vars

-----------------------------------------------------------------------------
(* Overlapping process() invocations on the one StoryWeaverAgent of the    *)
(* server (POST /api/weaver/process starts process() without awaiting it). *)
(* An invocation runs from one await to the next without interruption; its *)
(* local constants (title, author, targetAge, persona, the pipeline        *)
(* values) are its own, this.state and this.currentProject are the         *)
(* agent's.  The pipeline values are those of Spec and are left out here.  *)

\* the config objects the agent is constructed with: the one of the server,
\* and one whose maxDecisionPoints is below its minDecisionPoints
OverlapConfigs ==
    {[minDecisionPoints |-> 3, maxDecisionPoints |-> 12],
     [minDecisionPoints |-> 3, maxDecisionPoints |-> 2]}

\* constructor: this.config (the decision point limits)
StoryWeaverAgentConfig(config) ==
    LET defaults ==
            [minDecisionPoints |-> IF Has(config, "minDecisionPoints")
                                      /\ config.minDecisionPoints # 0
                                   THEN config.minDecisionPoints ELSE 3,
             maxDecisionPoints |-> IF Has(config, "maxDecisionPoints")
                                      /\ config.maxDecisionPoints # 0
                                   THEN config.maxDecisionPoints ELSE 15]
    IN  [k \in DOMAIN defaults \cup DOMAIN config |->
            IF k \in DOMAIN config THEN config[k] ELSE defaults[k]]

\* validateProcessingConfig(config): the check of the decision point limits,
\* a method that neither the constructor nor process() calls
validateProcessingConfig(config) ==
    IF /\ Has(config, "maxDecisionPoints") /\ config.maxDecisionPoints # 0
       /\ Has(config, "minDecisionPoints")
       /\ config.maxDecisionPoints < config.minDecisionPoints
    THEN [valid |-> FALSE,
          errors |-> <<"maxDecisionPoints cannot be less than minDecisionPoints">>]
    ELSE [valid |-> TRUE, errors |-> <<>>]

\* arguments of process(): bookContent is given by its length and its words
ProcessInputs ==
    {[bookContent |-> [length |-> 3000, words |-> 600], title |-> "Alpha",
      author |-> "Ann", targetAge |-> "6-8", persona |-> "classic"],
     [bookContent |-> [length |-> 4000, words |-> 800], title |-> "Beta",
      author |-> "Bob", targetAge |-> "10-12"],
     [bookContent |-> [length |-> 3000, words |-> 600], title |-> "",
      author |-> "Cy", targetAge |-> "8-10", persona |-> "playful"],
     [bookContent |-> [length |-> 99, words |-> 20], title |-> "Short",
      author |-> "Di", targetAge |-> "8-10", persona |-> "playful"],
     [bookContent |-> [length |-> 3000, words |-> 499], title |-> "Few",
      author |-> "Ed", targetAge |-> "12-14", persona |-> "objective"],
     [bookContent |-> [length |-> 600000, words |-> 90001], title |-> "Many",
      author |-> "Flo", targetAge |-> "6-8", persona |-> "classic"]}

\* const { ..., persona = 'adventurous' } = input
LocalPersona(in) == IF Has(in, "persona") THEN in.persona ELSE "adventurous"

\* a validation without the word count
validateInput_NoWordCount(in) ==
    IF in.bookContent.length < 100
    THEN "Book content must be at least 100 characters long"
    ELSE IF in.title = ""
    THEN "Title is required"
    ELSE IF in.targetAge \notin {"6-8", "8-10", "10-12", "12-14"}
    THEN "Valid target age range is required"
    ELSE "ok"

validateInput(in) ==
    IF in.bookContent.length < 100
    THEN "Book content must be at least 100 characters long"
    ELSE IF in.title = ""
    THEN "Title is required"
    ELSE IF in.targetAge \notin {"6-8", "8-10", "10-12", "12-14"}
    THEN "Valid target age range is required"
    ELSE IF in.bookContent.words < 500 \/ in.bookContent.words > 90000
    THEN "Book must be between 500 and 90,000 words"
    ELSE "ok"

uuidv4(count) == "uuid_" \o ToString(count + 1)

\* the awaits of process() after validateInput, in order
Awaits ==
    <<"await_parse", "await_detect", "await_summarize", "await_generate",
      "await_map", "await_converge">>

StepStart(k) == [name |-> "step:start", step |-> k]
StepComplete(k) == [name |-> "step:complete", step |-> k]
ProcessComplete == [name |-> "process:complete", step |-> 0]
ProcessError == [name |-> "process:error", step |-> 0]

\* an emit that reaches the log only when somebody listens
emit_OnlyHeard(log, events) == IF listening THEN log \o events ELSE log

\* this.emit(...): the events go to the log whoever listens
emit(log, events) == log \o events

\* the listeners of the server keep the step of the event they were called with
Heard(events) ==
    LET steps == {i \in 1..Len(events) :
                     events[i].name \in {"step:start", "step:complete"}}
    IN  IF listening /\ steps # {}
        THEN events[CHOOSE i \in steps : \A j \in steps : j <= i]
        ELSE lastHeard

\* the entries the POST handler and its callbacks set; progress is kept in
\* sevenths of 100, the unit of (data.step / 7) * 100
StartingEntry == [status |-> "starting", currentStep |-> 0, progress |-> 0]
CompletedEntry == [status |-> "completed", currentStep |-> 0, progress |-> 7]
FailedEntry == [status |-> "failed", currentStep |-> 0, progress |-> 0]

\* the two listeners a POST request attached, called with an event of the
\* agent: they update the request's entry if the table still has it
Listen(entry, event) ==
    IF entry = Null THEN entry
    ELSE IF event.name = "step:start"
    THEN [entry EXCEPT !.status = "processing", !.currentStep = event.step,
                       !.progress = event.step]
    ELSE IF event.name = "step:complete"
    THEN [entry EXCEPT !.progress = event.step]
    ELSE entry

\* the table after the agent emitted the events, in order: every listener
\* attached so far is called
Notify(table, events) ==
    LET F[n \in 0..Len(events)] ==
            IF n = 0 THEN table
            ELSE [q \in Invocations |-> Listen(F[n - 1][q], events[n])]
    IN  F[Len(events)]

\* activeProcesses.set(processId, entry) in the callbacks of the request
Settle(table, p, entry) ==
    IF listening THEN [table EXCEPT ![p] = entry] ELSE table

\* process(input) up to its first await
ProcessStart(p, in) ==
    /\ pc[p] = "not_started"
    /\ state' = "processing"
    /\ currentProject' = [id |-> uuidv4(uuidCount),
                          title |-> in.title,
                          author |-> in.author,
                          targetAge |-> in.targetAge,
                          persona |-> LocalPersona(in),
                          startTime |-> clock]
    /\ uuidCount' = uuidCount + 1
    /\ input' = [input EXCEPT ![p] = in]
    /\ own' = [own EXCEPT ![p] = [id |-> uuidv4(uuidCount), startTime |-> clock,
                                  returnTime |-> clock]]
    /\ emitted' = [emitted EXCEPT ![p] = emit(@, <<StepStart(1)>>)]
    /\ lastHeard' = Heard(<<StepStart(1)>>)
    /\ activeProcesses' = Notify(Settle(activeProcesses, p, StartingEntry),
                                 <<StepStart(1)>>)
    /\ pc' = [pc EXCEPT ![p] = "await_validateInput"]
    /\ UNCHANGED <<clock, result, listening>>
    /\ UNCHANGED pipeVars
    /\ UNCHANGED toolVars

\* validateInput resolved: on to textParser.parse
ProcessValidated(p) ==
    /\ pc[p] = "await_validateInput"
    /\ validateInput(input[p]) = "ok"
    /\ emitted' = [emitted EXCEPT ![p] = emit(@, <<StepComplete(1), StepStart(2)>>)]
    /\ lastHeard' = Heard(<<StepComplete(1), StepStart(2)>>)
    /\ activeProcesses' = Notify(activeProcesses, <<StepComplete(1), StepStart(2)>>)
    /\ pc' = [pc EXCEPT ![p] = Awaits[1]]
    /\ UNCHANGED <<state, currentProject, uuidCount, clock, input, own, result,
                   listening>>
    /\ UNCHANGED pipeVars
    /\ UNCHANGED toolVars

\* validateInput rejected: the catch block
ProcessThrow(p) ==
    /\ pc[p] = "await_validateInput"
    /\ validateInput(input[p]) # "ok"
    /\ state' = "error"
    /\ emitted' = [emitted EXCEPT ![p] = emit(@, <<ProcessError>>)]
    /\ lastHeard' = Heard(<<ProcessError>>)
    /\ activeProcesses' = Settle(Notify(activeProcesses, <<ProcessError>>), p,
                                 FailedEntry)
    /\ pc' = [pc EXCEPT ![p] = "thrown"]
    /\ UNCHANGED <<currentProject, uuidCount, clock, input, own, result, listening>>
    /\ UNCHANGED pipeVars
    /\ UNCHANGED toolVars

\* a service resolved: its step is complete, the next step starts
ProcessStep(p) ==
    /\ \E k \in 1..(Len(Awaits) - 1) :
          /\ pc[p] = Awaits[k]
          /\ emitted' = [emitted EXCEPT ![p] =
                            emit(@, <<StepComplete(k + 1), StepStart(k + 2)>>)]
          /\ lastHeard' = Heard(<<StepComplete(k + 1), StepStart(k + 2)>>)
          /\ activeProcesses' = Notify(activeProcesses,
                                       <<StepComplete(k + 1), StepStart(k + 2)>>)
          /\ pc' = [pc EXCEPT ![p] = Awaits[k + 1]]
    /\ UNCHANGED <<state, currentProject, uuidCount, clock, input, own, result,
                   listening>>
    /\ UNCHANGED pipeVars
    /\ UNCHANGED toolVars

\* a service rejected: the catch block
ProcessServiceThrow(p) ==
    /\ \E k \in 1..Len(Awaits) : pc[p] = Awaits[k]
    /\ state' = "error"
    /\ emitted' = [emitted EXCEPT ![p] = emit(@, <<ProcessError>>)]
    /\ lastHeard' = Heard(<<ProcessError>>)
    /\ activeProcesses' = Settle(Notify(activeProcesses, <<ProcessError>>), p,
                                 FailedEntry)
    /\ pc' = [pc EXCEPT ![p] = "thrown"]
    /\ UNCHANGED <<currentProject, uuidCount, clock, input, own, result, listening>>
    /\ UNCHANGED pipeVars
    /\ UNCHANGED toolVars

\* pathConvergence.converge resolved: the result is compiled and returned
ProcessReturn(p) ==
    /\ pc[p] = Awaits[Len(Awaits)]
    /\ result' = [result EXCEPT ![p] =
                     [id |-> currentProject.id,
                      metadata |-> [title |-> input[p].title,
                                    author |-> input[p].author,
                                    targetAge |-> input[p].targetAge,
                                    persona |-> LocalPersona(input[p]),
                                    processingTime |-> clock - currentProject.startTime]]]
    /\ own' = [own EXCEPT ![p].returnTime = clock]
    /\ state' = "completed"
    /\ emitted' = [emitted EXCEPT ![p] =
                      emit(@, <<StepComplete(Len(Awaits) + 1), ProcessComplete>>)]
    /\ lastHeard' = Heard(<<StepComplete(Len(Awaits) + 1), ProcessComplete>>)
    /\ activeProcesses' =
          Settle(Notify(activeProcesses,
                        <<StepComplete(Len(Awaits) + 1), ProcessComplete>>),
                 p, CompletedEntry)
    /\ pc' = [pc EXCEPT ![p] = "returned"]
    /\ UNCHANGED <<currentProject, uuidCount, clock, input, listening>>
    /\ UNCHANGED pipeVars
    /\ UNCHANGED toolVars

\* cancel(): its process:cancelled event has no listener and belongs to no
\* invocation
Cancel ==
    /\ state = "processing"
    /\ state' = "cancelled"
    /\ UNCHANGED <<currentProject, uuidCount, clock, pc, input, own, result,
                   emitted, listening, lastHeard, activeProcesses>>
    /\ UNCHANGED pipeVars
    /\ UNCHANGED toolVars

\* time passes between two steps
Tick ==
    /\ clock < MaxClock
    /\ clock' = clock + 1
    /\ UNCHANGED <<state, currentProject, uuidCount, pc, input, own, result,
                   emitted, listening, lastHeard, activeProcesses>>
    /\ UNCHANGED pipeVars
    /\ UNCHANGED toolVars

\* DELETE /api/weaver/process/:processId on an entry that is processing
CancelProcess(p) ==
    /\ listening
    /\ activeProcesses[p] # Null
    /\ activeProcesses[p].status = "processing"
    /\ state' = IF state = "processing" THEN "cancelled" ELSE state
    /\ activeProcesses' = [activeProcesses EXCEPT ![p].status = "cancelled"]
    /\ UNCHANGED <<currentProject, uuidCount, clock, pc, input, own, result,
                   emitted, listening, lastHeard>>
    /\ UNCHANGED pipeVars
    /\ UNCHANGED toolVars

\* the timer set in the then-callback: activeProcesses.delete(processId)
DeleteEntry(p) ==
    /\ pc[p] = "returned"
    /\ activeProcesses[p] # Null
    /\ activeProcesses' = [activeProcesses EXCEPT ![p] = Null]
    /\ UNCHANGED <<state, currentProject, uuidCount, clock, pc, input, own, result,
                   emitted, listening, lastHeard>>
    /\ UNCHANGED pipeVars
    /\ UNCHANGED toolVars

InitOverlap ==
    /\ AgentConstructed
    /\ ToolsIdle
    /\ listening \in BOOLEAN
    /\ stage = "idle"
    /\ agentConfig \in OverlapConfigs
    /\ pathConfig = PathConvergenceConfig(agentConfig)
    /\ persona = "adventurous"
    /\ chunks = <<>>
    /\ decisionPoints = <<>>
    /\ scenes = <<>>
    /\ choiceSets = <<>>
    /\ consequences = <<>>
    /\ altConsequences = <<>>
    /\ storyGraph = Undefined
    /\ convergencePoints = <<>>
    /\ structure = Undefined
    /\ altGraph = Undefined
    /\ altStructure = Undefined

NextOverlap ==
    \/ \E p \in Invocations, in \in ProcessInputs : ProcessStart(p, in)
    \/ \E p \in Invocations : ProcessValidated(p)
    \/ \E p \in Invocations : ProcessThrow(p)
    \/ \E p \in Invocations : ProcessStep(p)
    \/ \E p \in Invocations : ProcessServiceThrow(p)
    \/ \E p \in Invocations : ProcessReturn(p)
    \/ Cancel
    \/ Tick

SpecOverlap == InitOverlap /\ [][NextOverlap]_vars

-----------------------------------------------------------------------------
(* The server: POST /api/weaver/process requests on the shared agent, the  *)
(* DELETE requests and the timers that empty the process table.            *)

\* the validation of the POST handler
RequestAccepted(in) ==
    /\ in.bookContent.length > 0
    /\ in.title # ""
    /\ in.targetAge \in {"6-8", "8-10", "10-12", "12-14"}

\* POST /api/weaver/process: the entry, the listeners, then process() up to
\* its first await
PostProcess(p, in) ==
    /\ RequestAccepted(in)
    /\ ProcessStart(p, in)

InitServer ==
    /\ AgentConstructed
    /\ ToolsIdle
    /\ listening = TRUE
    /\ stage = "idle"
    /\ agentConfig = [minDecisionPoints |-> 3, maxDecisionPoints |-> 12]
    /\ pathConfig = PathConvergenceConfig(agentConfig)
    /\ persona = "adventurous"
    /\ chunks = <<>>
    /\ decisionPoints = <<>>
    /\ scenes = <<>>
    /\ choiceSets = <<>>
    /\ consequences = <<>>
    /\ altConsequences = <<>>
    /\ storyGraph = Undefined
    /\ convergencePoints = <<>>
    /\ structure = Undefined
    /\ altGraph = Undefined
    /\ altStructure = Undefined

NextServer ==
    \/ \E p \in Invocations, in \in ProcessInputs : PostProcess(p, in)
    \/ \E p \in Invocations : ProcessValidated(p)
    \/ \E p \in Invocations : ProcessThrow(p)
    \/ \E p \in Invocations : ProcessStep(p)
    \/ \E p \in Invocations : ProcessServiceThrow(p)
    \/ \E p \in Invocations : ProcessReturn(p)
    \/ \E p \in Invocations : CancelProcess(p)
    \/ \E p \in Invocations : DeleteEntry(p)

SpecServer == InitServer /\ [][NextServer]_vars

-----------------------------------------------------------------------------
(* Properties of the converged story.                                      *)

Converged == stage = "converged"

NumScenes == Len(scenes)

SceneId(i) == scenes[i + 1].id

\* the edges of the graph that leave the scene of index i, in graph order
EdgesFrom(graph, i) == Filter(graph.edges, LAMBDA e : e.from = SceneId(i))

\* the choices of scene i are sent to branch variants: nodes that are neither
\* a scene nor the ending
Diverges(graph, i) ==
    \E e \in 1..Len(graph.edges) :
        /\ graph.edges[e].from = SceneId(i)
        /\ graph.edges[e].to # "scene_ending"
        /\ graph.edges[e].to \notin DOMAIN graph.nodes

\* C1: every edge's target is the ending or a node of the graph, and every
\* node has an outgoing edge (so every walk along edges reaches the ending).
C1_NoDanglingBranch ==
    (Converged /\ NumScenes >= 1) =>
        /\ \A e \in 1..Len(storyGraph.edges) :
              \/ storyGraph.edges[e].to = "scene_ending"
              \/ storyGraph.edges[e].to \in DOMAIN storyGraph.nodes
        /\ \A id \in DOMAIN storyGraph.nodes :
              \E e \in 1..Len(storyGraph.edges) : storyGraph.edges[e].from = id

\* C2: with the default configuration no more than maxBranchDepth
\* consecutive scenes send their choices to branch variants.
C2_DivergenceBounded ==
    (Converged /\ agentConfig = NoConfig) =>
        \A i \in 0..(NumScenes - 1) :
            ~(\A j \in i..(i + pathConfig.maxBranchDepth) :
                  j <= NumScenes - 1 /\ Diverges(storyGraph, j))

\* C3: a convergent non-last scene sends every choice to the next scene; a
\* divergent one sends choice k to the next scene's branch variant k, and
\* these targets are pairwise distinct.
C3_ConvergeOrBranch ==
    Converged =>
        \A i \in 0..(NumScenes - 2) :
            With(EdgesFrom(storyGraph, i), LAMBDA es :
                /\ Len(es) = Len(choiceSets[i + 1].choices)
                /\ Len(es) >= 2
                /\ IF shouldConverge(pathConfig, i, NumScenes)
                   THEN \A k \in 1..Len(es) : es[k].to = SceneId(i + 1)
                   ELSE /\ \A k \in 1..Len(es) :
                              es[k].to = SceneId(i + 1) \o "_branch_" \o ToString(k - 1)
                        /\ \A k, m \in 1..Len(es) : k # m => es[k].to # es[m].to)

C3_Witness ==
    /\ Converged
    /\ \E i, j \in 0..(NumScenes - 2) :
          /\ shouldConverge(pathConfig, i, NumScenes)
          /\ ~shouldConverge(pathConfig, j, NumScenes)
          /\ Len(EdgesFrom(storyGraph, i)) >= 2
          /\ Len(EdgesFrom(storyGraph, j)) >= 2

\* the convergenceBuffer in force: the configured one, 2 when not configured
ConfiguredBuffer ==
    IF Has(agentConfig, "convergenceBuffer") THEN agentConfig.convergenceBuffer ELSE 2

\* C4: shouldConverge(i, N) is true exactly when i >= N - convergenceBuffer
\* or i mod max(3, floor(N / 5)) = 0.
C4_ShouldConvergeRule ==
    Converged =>
        \A i \in 0..(NumScenes - 1) :
            shouldConverge(pathConfig, i, NumScenes)
                <=> \/ i >= NumScenes - ConfiguredBuffer
                    \/ i % (IF NumScenes \div 5 > 3 THEN NumScenes \div 5 ELSE 3) = 0

C4_Witness ==
    /\ Converged
    /\ Has(agentConfig, "convergenceBuffer")
    /\ agentConfig.convergenceBuffer = 0
    /\ NumScenes >= 20
    /\ \E i, j \in 0..(NumScenes - 1) :
          /\ shouldConverge(pathConfig, i, NumScenes)
          /\ ~shouldConverge(pathConfig, j, NumScenes)

\* C5: every choice of the last scene leads to the ending, and no choice of
\* an earlier scene does (in the graph and in the scenes' nextScenes).
C5_OnlyLastSceneEnds ==
    (Converged /\ NumScenes >= 1) =>
        /\ Len(EdgesFrom(storyGraph, NumScenes - 1))
              = Len(choiceSets[NumScenes].choices)
        /\ \A e \in 1..Len(storyGraph.edges) :
              storyGraph.edges[e].to = "scene_ending"
                  <=> storyGraph.edges[e].from = SceneId(NumScenes - 1)
        /\ \A i \in 1..NumScenes : \A k \in 1..Len(structure.scenes[i].nextScenes) :
              structure.scenes[i].nextScenes[k] = "scene_ending" <=> i = NumScenes

C5_Witness ==
    /\ Converged
    /\ NumScenes >= 2
    /\ ~shouldConverge(pathConfig, NumScenes - 1, NumScenes)
    /\ Len(EdgesFrom(storyGraph, NumScenes - 1)) >= 2

\* C6: the two runs, which differ only in the values of their consequences,
\* have the same edge targets and the same nextScenes.
C6_ConsequenceIndependent ==
    Converged =>
        /\ Len(altGraph.edges) = Len(storyGraph.edges)
        /\ \A e \in 1..Len(storyGraph.edges) :
              /\ altGraph.edges[e].from = storyGraph.edges[e].from
              /\ altGraph.edges[e].to = storyGraph.edges[e].to
        /\ Len(altStructure.scenes) = Len(structure.scenes)
        /\ \A i \in 1..Len(structure.scenes) :
              altStructure.scenes[i].nextScenes = structure.scenes[i].nextScenes

C6_Witness ==
    /\ Converged
    /\ NumScenes >= 4
    /\ \E e \in 1..Len(storyGraph.edges) :
          /\ storyGraph.edges[e].consequence.nextSceneModifier
                # altGraph.edges[e].consequence.nextSceneModifier
          /\ storyGraph.edges[e].consequence.emotionalTone
                # altGraph.edges[e].consequence.emotionalTone
          /\ Diverges(storyGraph, 1)

\* C7: with zero scenes the start scene is the ending (or a scene of the
\* structure that leads to it), and the ending is the original text.
C7_ZeroScenesStartAtEnding ==
    (Converged /\ NumScenes = 0 /\ Len(chunks) > 0) =>
        /\ \/ structure.startScene = "scene_ending"
           \/ \E i \in 1..Len(structure.scenes) :
                 structure.scenes[i].id = structure.startScene
        /\ structure.ending.isOriginal

\* C8: the ending is the last min(3, n) sentences of the final chunk, in
\* order and unmodified, marked original, and the same in both runs.
C8_EndingVerbatim ==
    (Converged /\ Len(chunks) > 0) =>
        LET sentences == chunks[Len(chunks)].sentences
            k == IF Len(sentences) < 3 THEN Len(sentences) ELSE 3
        IN  /\ structure.ending.content
                  = Join([j \in 1..k |-> sentences[Len(sentences) - k + j]], " ")
            /\ structure.ending.isOriginal
            /\ altStructure.ending = structure.ending

C8_Witness ==
    /\ Converged
    /\ NumScenes >= 1
    /\ Len(chunks) >= 2
    /\ Len(chunks[Len(chunks)].sentences) > 3
    /\ structure.ending.content = Join(SubSeq(chunks[Len(chunks)].sentences, 2, 4), " ")

\* the candidates of the convergence overlay
ChapterBoundaryIndexes ==
    {chunks[i].index : i \in {c \in 1..Len(chunks) :
        chunks[c].metadata.isChapterStart \/ chunks[c].metadata.isChapterEnd}}

PeriodicIndexes ==
    {x \in 1..(NumScenes - 1) :
        x % (IF NumScenes \div 5 > 3 THEN NumScenes \div 5 ELSE 3) = 0}

\* the kind of the first candidate of an index, in the order chapter
\* boundary, periodic, pre-ending
FirstCandidateType(x) ==
    IF x \in ChapterBoundaryIndexes THEN "chapter_boundary"
    ELSE IF x \in PeriodicIndexes THEN "periodic"
    ELSE "pre_ending"

OverlaySortedFirstWins ==
    /\ \A i, j \in 1..Len(convergencePoints) :
          i < j => convergencePoints[i].afterSceneIndex
                       < convergencePoints[j].afterSceneIndex
    /\ \A i \in 1..Len(convergencePoints) :
          convergencePoints[i].type
              = FirstCandidateType(convergencePoints[i].afterSceneIndex)

OverlayHolds(indexes) ==
    \A x \in indexes :
        \E i \in 1..Len(convergencePoints) : convergencePoints[i].afterSceneIndex = x

\* C9 as claimed: the overlay is sorted, without duplicates, first candidate
\* kept, and holds every chapter boundary, every periodic index and N - 3.
C9_OverlayWithPreEnding ==
    Converged =>
        /\ OverlaySortedFirstWins
        /\ OverlayHolds(ChapterBoundaryIndexes \cup PeriodicIndexes
                            \cup (IF NumScenes >= 3 THEN {NumScenes - 3} ELSE {}))

\* C9 as amended: the same, with N - 3 present when N > 3.
C9_OverlayPreEndingAboveThree ==
    Converged =>
        /\ OverlaySortedFirstWins
        /\ OverlayHolds(ChapterBoundaryIndexes \cup PeriodicIndexes
                            \cup (IF NumScenes > 3 THEN {NumScenes - 3} ELSE {}))

C9_Witness ==
    /\ Converged
    /\ NumScenes > 3
    /\ ChapterBoundaryIndexes \cap PeriodicIndexes # {}
    /\ \E i \in 1..Len(convergencePoints) : convergencePoints[i].type = "pre_ending"
    /\ \E i \in 1..Len(convergencePoints) : convergencePoints[i].type = "periodic"

\* C10: the result an invocation returns carries the id it created itself,
\* the metadata of its own input and the time it took itself.
C10_ResultIsOwn ==
    \A p \in Invocations :
        pc[p] = "returned" =>
            /\ result[p].id = own[p].id
            /\ result[p].metadata.title = input[p].title
            /\ result[p].metadata.author = input[p].author
            /\ result[p].metadata.targetAge = input[p].targetAge
            /\ result[p].metadata.persona = LocalPersona(input[p])
            /\ result[p].metadata.processingTime
                  = own[p].returnTime - own[p].startTime

-----------------------------------------------------------------------------
(* Properties of the process() invocations.                                *)

Started(p) == pc[p] # "not_started"

\* p is the only invocation that has started
Alone(p) == \A q \in Invocations \ {p} : ~Started(q)

BadText(in) ==
    \/ in.bookContent.length < 100
    \/ in.bookContent.words < 500
    \/ in.bookContent.words > 90000

\* C11: an invocation whose text is too short or whose word count is out of
\* range never gets past validateInput: no stage is awaited, no step:start
\* of the steps 2..7 is emitted, and it ends with the agent in state 'error'.
C11_BadTextRejected ==
    \A p \in Invocations :
        (Started(p) /\ BadText(input[p])) =>
            /\ pc[p] \in {"await_validateInput", "thrown"}
            /\ \A i \in 1..Len(emitted[p]) :
                  emitted[p][i].name = "step:start" => emitted[p][i].step = 1
            /\ pc[p] = "thrown" => emitted[p][Len(emitted[p])] = ProcessError
            /\ (pc[p] = "thrown" /\ Alone(p)) => state = "error"

C11_Witness ==
    \E p \in Invocations :
        /\ pc[p] = "thrown"
        /\ Alone(p)
        /\ input[p].bookContent.length >= 100
        /\ input[p].bookContent.words > 90000
        /\ state = "error"

\* C12: on an agent whose maxDecisionPoints is below its minDecisionPoints
\* no invocation reaches a pipeline stage.
C12_BadLimitsRejected ==
    (StoryWeaverAgentConfig(agentConfig).maxDecisionPoints
         < StoryWeaverAgentConfig(agentConfig).minDecisionPoints) =>
        \A p \in Invocations :
            pc[p] \in {"not_started", "await_validateInput", "thrown"}

\* the events of a run that completes all seven steps
FullRun ==
    [i \in 1..15 |->
        IF i = 15 THEN ProcessComplete
        ELSE IF i % 2 = 1 THEN StepStart((i + 1) \div 2)
        ELSE StepComplete(i \div 2)]

\* C13: a run that returned has emitted step:start k, step:complete k for
\* k = 1..7 in order and then process:complete; a run that failed in step k
\* has emitted the events up to step:start k and then process:error; a run
\* in progress has emitted the events up to the start of its step.  This is
\* so with and without listeners, and a returned run has its result.
C13_EventOrder ==
    \A p \in Invocations :
        /\ pc[p] = "returned" => (emitted[p] = FullRun /\ result[p] # Null)
        /\ pc[p] = "thrown" =>
              \E k \in 1..7 :
                  emitted[p] = SubSeq(FullRun, 1, 2 * k - 1) \o <<ProcessError>>
        /\ pc[p] = "await_validateInput" => emitted[p] = SubSeq(FullRun, 1, 1)
        /\ \A k \in 1..Len(Awaits) :
              pc[p] = Awaits[k] => emitted[p] = SubSeq(FullRun, 1, 2 * k + 1)
        /\ pc[p] = "not_started" => emitted[p] = <<>>

C13_Witness ==
    /\ ~listening
    /\ \E p, q \in Invocations :
          /\ pc[p] = "returned"
          /\ pc[q] = "thrown"
          /\ Len(emitted[q]) = 8

-----------------------------------------------------------------------------
(* TextParser on texts that are sequences of characters.  The characters   *)
(* are "A" (an upper case letter), lower case letters, "." (a sentence     *)
(* ender) and " " (white space); a text of these has no paragraph break    *)
(* and no chapter heading.                                                 *)

IsUpper(c) == c = "A"
IsSpace(c) == c = " "
IsEnder(c) == c = "."

\* String.prototype.trim
RECURSIVE Trim(_)
Trim(text) ==
    IF Len(text) = 0 THEN text
    ELSE IF IsSpace(text[1]) THEN Trim(Tail(text))
    ELSE IF IsSpace(text[Len(text)]) THEN Trim(SubSeq(text, 1, Len(text) - 1))
    ELSE text

\* Array.prototype.join on texts
RECURSIVE JoinText(_, _)
JoinText(texts, sep) ==
    IF Len(texts) = 0 THEN <<>>
    ELSE IF Len(texts) = 1 THEN texts[1]
    ELSE texts[1] \o sep \o JoinText(Tail(texts), sep)

\* the elements of a set of numbers in increasing order
RECURSIVE Ascending(_)
Ascending(S) ==
    IF S = {} THEN <<>>
    ELSE LET least == CHOOSE x \in S : \A y \in S : x <= y
         IN  <<least>> \o Ascending(S \ {least})

\* cleanText: runs of spaces become one space, then trim
cleanText(text) ==
    LET kept == {i \in 1..Len(text) :
                    ~(IsSpace(text[i]) /\ i > 1 /\ IsSpace(text[i - 1]))}
        order == Ascending(kept)
    IN  Trim([k \in 1..Len(order) |-> text[order[k]]])

\* extractSentences: split at /([.!?]+)\s+(?=[A-Z])/, the enders kept with
\* the sentence before them, each piece trimmed, empty pieces left out
extractSentences(text) ==
    LET n == Len(text)
        IsBreak(i) ==
            /\ IsEnder(text[i])
            /\ i < n
            /\ IsSpace(text[i + 1])
            /\ \E j \in (i + 2)..n :
                  /\ IsUpper(text[j])
                  /\ \A m \in (i + 1)..(j - 1) : IsSpace(text[m])
        ends == Ascending({i \in 1..n : i = n \/ IsBreak(i)})
        piece(k) == Trim(SubSeq(text, IF k = 1 THEN 1 ELSE ends[k - 1] + 1, ends[k]))
        full == Ascending({k \in 1..Len(ends) : Len(piece(k)) > 0})
    IN  [k \in 1..Len(full) |-> piece(full[k])]

\* constructor of TextParser: the defaults, then every key of config
TextParserConfig(config) ==
    LET defaults ==
            [maxChunkSize |-> IF Has(config, "maxChunkSize") /\ config.maxChunkSize # 0
                              THEN config.maxChunkSize ELSE 3000,
             overlapSize |-> IF Has(config, "overlapSize") /\ config.overlapSize # 0
                             THEN config.overlapSize ELSE 200]
    IN  [k \in DOMAIN defaults \cup DOMAIN config |->
            IF k \in DOMAIN config THEN config[k] ELSE defaults[k]]

\* an overlap of the last sentences whatever their length
getOverlapText_Whole(cfg, chunkContent) ==
    JoinText(SliceLast(extractSentences(chunkContent), 2), <<" ">>)

getOverlapText(cfg, chunkContent) ==
    LET sentences == extractSentences(chunkContent)
        overlap == JoinText(SliceLast(sentences, 2), <<" ">>)
    IN  IF Len(sentences) = 0 THEN <<>>
        ELSE IF Len(overlap) > cfg.overlapSize
        THEN SubSeq(overlap, Max(Len(overlap) - cfg.overlapSize, 0) + 1, Len(overlap))
        ELSE overlap

\* chunkText: the loop over the sentences, then the last chunk
chunkText(cfg, text) ==
    LET sentences == extractSentences(text)
        Loop[i \in 0..Len(sentences)] ==
            IF i = 0
            THEN [chunks |-> <<>>,
                  currentChunk |-> [content |-> <<>>, startChar |-> 0, endChar |-> 0],
                  charCount |-> 0]
            ELSE LET before == Loop[i - 1]
                     sentence == sentences[i]
                     current == before.currentChunk
                 IN  IF /\ Len(current.content) > 0
                        /\ Len(current.content) + Len(sentence) > cfg.maxChunkSize
                     THEN LET overlap == getOverlapText(cfg, current.content)
                          IN  [chunks |-> Append(before.chunks,
                                           [current EXCEPT
                                               !.endChar = before.charCount - 1]),
                               currentChunk |->
                                   [content |-> overlap \o sentence,
                                    startChar |-> before.charCount - Len(overlap),
                                    endChar |-> 0],
                               charCount |-> before.charCount + Len(sentence) + 1]
                     ELSE [chunks |-> before.chunks,
                           currentChunk |->
                               [current EXCEPT !.content =
                                   IF Len(@) > 0 THEN @ \o <<" ">> \o sentence
                                   ELSE sentence],
                           charCount |-> before.charCount + Len(sentence) + 1]
        last == Loop[Len(sentences)]
    IN  IF Len(Trim(last.currentChunk.content)) > 0
        THEN Append(last.chunks,
                    [last.currentChunk EXCEPT !.endChar = last.charCount - 1])
        ELSE last.chunks

\* detectSections of a text without paragraph break and chapter heading
detectSections(text) ==
    IF Len(Trim(text)) > 0
    THEN <<[title |-> "Beginning", content |-> Trim(text), index |-> 0,
            isChapter |-> FALSE]>>
    ELSE <<[title |-> "Full Text", content |-> text, index |-> 0,
            isChapter |-> FALSE]>>

\* parse: the chunks of the sections, numbered through
parse(cfg, content) ==
    LET sections == detectSections(cleanText(content))
        perSection == [k \in 1..Len(sections) |->
                          With(chunkText(cfg, sections[k].content), LAMBDA sectionChunks :
                              [i \in 1..Len(sectionChunks) |->
                                  [sectionIndex |-> sections[k].index,
                                   sectionTitle |-> sections[k].title,
                                   content |-> sectionChunks[i].content,
                                   startChar |-> sectionChunks[i].startChar,
                                   endChar |-> sectionChunks[i].endChar,
                                   sentences |-> extractSentences(sectionChunks[i].content),
                                   metadata |->
                                       [isChapterStart |-> i = 1 /\ sections[k].isChapter,
                                        isChapterEnd |-> i = Len(sectionChunks)
                                                            /\ sections[k].isChapter]]])]
        flat == Flatten(perSection)
    IN  [g \in 1..Len(flat) |->
            [id |-> "chunk_" \o ToString(g - 1), index |-> g - 1,
             sectionIndex |-> flat[g].sectionIndex,
             sectionTitle |-> flat[g].sectionTitle,
             content |-> flat[g].content,
             startChar |-> flat[g].startChar,
             endChar |-> flat[g].endChar,
             sentences |-> flat[g].sentences,
             metadata |-> flat[g].metadata]]

-----------------------------------------------------------------------------
(* TextParser.parse called on a text.  A text is given by the lengths of   *)
(* its sentences: sentence k is "A", its own lower case letter repeated,   *)
(* and "."; the sentences are separated by one space.  A padded text has   *)
(* a leading space and two spaces between its sentences.                   *)

Letters == <<"b", "c", "d", "e", "f", "g", "h">>

SentenceText(k, len) ==
    <<"A">> \o [i \in 1..(len - 2) |-> Letters[k]] \o <<".">>

BookText(lengths, padded) ==
    LET body == JoinText([k \in 1..Len(lengths) |-> SentenceText(k, lengths[k])],
                         IF padded THEN <<" ", " ">> ELSE <<" ">>)
    IN  IF padded THEN <<" ">> \o body ELSE body

BookTexts ==
    {BookText(lengths, padded) :
        lengths \in UNION {[1..n -> 3..MaxSentenceLen] : n \in 0..MaxSentences},
        padded \in BOOLEAN}

\* config objects of the parser: none, and small chunk and overlap sizes
ParserConfigs ==
    {NoConfig} \cup
    {[maxChunkSize |-> m, overlapSize |-> o] : m \in {6, 11}, o \in 0..MaxOverlap}

InitParser ==
    /\ toolStage = "idle"
    /\ parserConfig \in {TextParserConfig(config) : config \in ParserConfigs}
    /\ bookContent \in BookTexts
    /\ parsedChunks = <<>>
    /\ DetectorIdle
    /\ AgentConstructed
    /\ listening = FALSE
    /\ stage = "idle"
    /\ agentConfig = NoConfig
    /\ pathConfig = PathConvergenceConfig(agentConfig)
    /\ persona = "adventurous"
    /\ chunks = <<>>
    /\ decisionPoints = <<>>
    /\ scenes = <<>>
    /\ choiceSets = <<>>
    /\ consequences = <<>>
    /\ altConsequences = <<>>
    /\ storyGraph = Undefined
    /\ convergencePoints = <<>>
    /\ structure = Undefined
    /\ altGraph = Undefined
    /\ altStructure = Undefined

\* textParser.parse(bookContent)
ParseBook ==
    /\ toolStage = "idle"
    /\ parsedChunks' = parse(parserConfig, bookContent)
    /\ toolStage' = "parsed"
    /\ UNCHANGED <<parserConfig, bookContent, detectorConfig, layoutChunks, detected>>
    /\ UNCHANGED pipeVars
    /\ UNCHANGED agentVars

NextParser ==
    \/ ParseBook

SpecParser == InitParser /\ [][NextParser]_vars

-----------------------------------------------------------------------------
(* DecisionPointDetector.  A sentence is given by what it holds: a pattern *)
(* of one category (its name), a choice cue ("cue") or neither ("none").   *)
(* A context matches what one of its sentences holds.  The category        *)
(* weights are in tenths.                                                  *)

CategoryTable ==
    <<[name |-> "Moral & Ethical Crossroads", weight |-> 15],
      [name |-> "Strategic or Tactical Choices", weight |-> 13],
      [name |-> "Time-Pressure Scenarios", weight |-> 14],
      [name |-> "Relationship & Trust Conflicts", weight |-> 12],
      [name |-> "Information & Knowledge Risks", weight |-> 11]>>

\* constructor of DecisionPointDetector: the defaults, then every key of config
DetectorConfig(config) ==
    LET defaults ==
            [minConfidence |-> IF Has(config, "minConfidence")
                               THEN config.minConfidence ELSE "medium",
             contextWindow |-> IF Has(config, "contextWindow") /\ config.contextWindow # 0
                               THEN config.contextWindow ELSE 1,
             maxPointsPerChunk |-> IF Has(config, "maxPointsPerChunk")
                                      /\ config.maxPointsPerChunk # 0
                                   THEN config.maxPointsPerChunk
                                   ELSE DefaultMaxPointsPerChunk]
    IN  [k \in DOMAIN defaults \cup DOMAIN config |->
            IF k \in DOMAIN config THEN config[k] ELSE defaults[k]]

\* the sentences of the context of sentence i (0-based), as positions
ContextWindow(cfg, sentences, i) ==
    (Max(0, i - cfg.contextWindow) + 1)..Min(Len(sentences), i + cfg.contextWindow + 1)

calculateConfidence(hasPatternMatch, hasChoiceCue) ==
    IF hasPatternMatch /\ hasChoiceCue THEN "high"
    ELSE IF hasPatternMatch THEN "medium"
    ELSE IF hasChoiceCue THEN "low"
    ELSE "none"

meetsConfidenceThreshold(cfg, confidence) ==
    confidence \in (CASE cfg.minConfidence = "high" -> {"high", "medium", "low"}
                      [] cfg.minConfidence = "medium" -> {"high", "medium"}
                      [] cfg.minConfidence = "low" -> {"high"})

\* confScore[confidence] * categoryWeight
PointScore(point) ==
    (CASE point.confidence = "high" -> 3
       [] point.confidence = "medium" -> 2
       [] point.confidence = "low" -> 1) * point.categoryWeight

\* a sort that puts a point before the points of its sentence already sorted
SortBySentenceIndex_TiesReversed(points) ==
    LET Insert(sorted, p) ==
            LET k == Cardinality({j \in 1..Len(sorted) :
                         sorted[j].sentenceIndex < p.sentenceIndex})
            IN  SubSeq(sorted, 1, k) \o <<p>> \o SubSeq(sorted, k + 1, Len(sorted))
        F[i \in 0..Len(points)] ==
            IF i = 0 THEN <<>> ELSE Insert(F[i - 1], points[i])
    IN  F[Len(points)]

\* Array.prototype.sort with the comparator sentenceIndex ascending: stable
SortBySentenceIndex(points) ==
    LET Insert(sorted, p) ==
            LET k == Cardinality({j \in 1..Len(sorted) :
                         sorted[j].sentenceIndex <= p.sentenceIndex})
            IN  SubSeq(sorted, 1, k) \o <<p>> \o SubSeq(sorted, k + 1, Len(sorted))
        F[i \in 0..Len(points)] ==
            IF i = 0 THEN <<>> ELSE Insert(F[i - 1], points[i])
    IN  F[Len(points)]

\* Array.prototype.sort with the comparator score descending: stable
SortByScore(points) ==
    LET Insert(sorted, p) ==
            LET k == Cardinality({j \in 1..Len(sorted) :
                         PointScore(sorted[j]) >= PointScore(p)})
            IN  SubSeq(sorted, 1, k) \o <<p>> \o SubSeq(sorted, k + 1, Len(sorted))
        F[i \in 0..Len(points)] ==
            IF i = 0 THEN <<>> ELSE Insert(F[i - 1], points[i])
    IN  F[Len(points)]

\* Array.prototype.sort with the comparator chunkIndex, then sentenceIndex
SortByPosition(points) ==
    LET NotAfter(a, b) ==
            IF a.chunkIndex # b.chunkIndex THEN a.chunkIndex < b.chunkIndex
            ELSE a.sentenceIndex <= b.sentenceIndex
        Insert(sorted, p) ==
            LET k == Cardinality({j \in 1..Len(sorted) : NotAfter(sorted[j], p)})
            IN  SubSeq(sorted, 1, k) \o <<p>> \o SubSeq(sorted, k + 1, Len(sorted))
        F[i \in 0..Len(points)] ==
            IF i = 0 THEN <<>> ELSE Insert(F[i - 1], points[i])
    IN  F[Len(points)]

\* a deduplication that keeps every point
deduplicatePoints_KeepAll(points) == SortBySentenceIndex(points)

deduplicatePoints(points) ==
    IF Len(points) <= 1 THEN points
    ELSE LET sorted == SortBySentenceIndex(points)
             F[i \in 0..Len(sorted)] ==
                 IF i = 0 THEN [deduplicated |-> <<>>, lastIndex |-> -999]
                 ELSE LET before == F[i - 1]
                          point == sorted[i]
                          kept == before.deduplicated
                      IN  IF point.sentenceIndex - before.lastIndex >= MinPointSpacing
                          THEN [deduplicated |-> Append(kept, point),
                                lastIndex |-> point.sentenceIndex]
                          ELSE IF point.confidence = "high"
                                  /\ kept[Len(kept)].confidence # "high"
                          THEN [deduplicated |-> [kept EXCEPT ![Len(kept)] = point],
                                lastIndex |-> point.sentenceIndex]
                          ELSE before
         IN  F[Len(sorted)].deduplicated

\* the loop of analyzeChunk: per sentence the categories in order, then the
\* generic cue
MatchedPoints(cfg, chunk) ==
    LET sentences == chunk.sentences
        slots == Len(CategoryTable) + 1
        P[k \in 0..(Len(sentences) * slots)] ==
            IF k = 0 THEN <<>>
            ELSE LET points == P[k - 1]
                     i == (k - 1) \div slots
                     c == ((k - 1) % slots) + 1
                     window == ContextWindow(cfg, sentences, i)
                     hasChoiceCue == \E j \in window : sentences[j] = "cue"
                 IN  IF c <= Len(CategoryTable)
                     THEN LET matched ==
                                  \E j \in window : sentences[j] = CategoryTable[c].name
                              confidence == calculateConfidence(matched, hasChoiceCue)
                          IN  IF matched /\ meetsConfidenceThreshold(cfg, confidence)
                              THEN Append(points,
                                     [id |-> "dp_" \o chunk.id \o "_" \o ToString(i)
                                                 \o "_" \o ToString(Len(points)),
                                      category |-> CategoryTable[c].name,
                                      categoryWeight |-> CategoryTable[c].weight,
                                      sentenceIndex |-> i,
                                      confidence |-> confidence])
                              ELSE points
                     ELSE IF Len(points) = 0 /\ hasChoiceCue
                          THEN Append(points,
                                 [id |-> "dp_" \o chunk.id \o "_" \o ToString(i)
                                             \o "_generic",
                                  category |-> "General Choice Point",
                                  categoryWeight |-> 10,
                                  sentenceIndex |-> i,
                                  confidence |-> "low"])
                          ELSE points
    IN  P[Len(sentences) * slots]

analyzeChunk(cfg, chunk) == deduplicatePoints(MatchedPoints(cfg, chunk))

limitPointsPerChunk(cfg, points) ==
    IF Len(points) <= cfg.maxPointsPerChunk THEN points
    ELSE SubSeq(SortByScore(points), 1, Max(cfg.maxPointsPerChunk, 0))

\* the loop of detect: the limited points of every chunk, with its context
CollectPoints(cfg, cs) ==
    Flatten([g \in 1..Len(cs) |->
        With(limitPointsPerChunk(cfg, analyzeChunk(cfg, cs[g])), LAMBDA limited :
            [i \in 1..Len(limited) |->
                [id |-> limited[i].id,
                 category |-> limited[i].category,
                 categoryWeight |-> limited[i].categoryWeight,
                 sentenceIndex |-> limited[i].sentenceIndex,
                 confidence |-> limited[i].confidence,
                 chunkId |-> cs[g].id,
                 chunkIndex |-> cs[g].index]])])

MinDecisionPoints(cfg) ==
    IF Has(cfg, "minDecisionPoints") /\ cfg.minDecisionPoints # 0
    THEN cfg.minDecisionPoints ELSE 3

MaxDecisionPoints(cfg) ==
    IF Has(cfg, "maxDecisionPoints") /\ cfg.maxDecisionPoints # 0
    THEN cfg.maxDecisionPoints ELSE 15

\* a distribution that cuts the list in document order
distributePoints_FirstOnes(cfg, points) ==
    [points |-> SortByPosition(SubSeq(points, 1, Min(Len(points), MaxDecisionPoints(cfg)))),
     warned |-> Len(points) < MinDecisionPoints(cfg)]

\* distributePoints: the points it returns, and whether it logged its warning
distributePoints(cfg, points) ==
    [points |-> SortByPosition(
                    IF Len(points) > MaxDecisionPoints(cfg)
                    THEN SubSeq(SortByScore(points), 1, MaxDecisionPoints(cfg))
                    ELSE points),
     warned |-> Len(points) < MinDecisionPoints(cfg)]

\* detect (enhanceWithAI returns its argument)
detect(cfg, cs) == distributePoints(cfg, CollectPoints(cfg, cs))

-----------------------------------------------------------------------------
(* DecisionPointDetector.detect called on chunks.  The sentences of the    *)
(* text are given by what each holds; the chunks hold LayoutChunkLen       *)
(* sentences each, the last one what is left.                              *)

SentenceKinds ==
    {"none", "cue", "Moral & Ethical Crossroads", "Strategic or Tactical Choices"}

LayoutChunks(kinds) ==
    [g \in 1..((Len(kinds) + LayoutChunkLen - 1) \div LayoutChunkLen) |->
        [id |-> "chunk_" \o ToString(g - 1),
         index |-> g - 1,
         sentences |-> SubSeq(kinds, (g - 1) * LayoutChunkLen + 1,
                              Min(g * LayoutChunkLen, Len(kinds)))]]

\* { ...a, ...b }
Spread(a, b) ==
    [k \in DOMAIN a \cup DOMAIN b |-> IF k \in DOMAIN b THEN b[k] ELSE a[k]]

\* config objects of the detector: with and without limits and minConfidence
DetectorLimits ==
    {NoConfig, [maxPointsPerChunk |-> 1], [maxDecisionPoints |-> 1],
     [maxDecisionPoints |-> 2]}

DetectorConfigs ==
    DetectorLimits \cup
    {Spread(limits, [minConfidence |-> m]) :
        limits \in DetectorLimits, m \in {"low", "medium", "high"}}

InitDetector ==
    /\ toolStage = "idle"
    /\ detectorConfig \in {DetectorConfig(config) : config \in DetectorConfigs}
    /\ layoutChunks \in {LayoutChunks(kinds) :
                            kinds \in UNION {[1..n -> SentenceKinds] : n \in 0..MaxLayout}}
    /\ detected = Null
    /\ ParserIdle
    /\ AgentConstructed
    /\ listening = FALSE
    /\ stage = "idle"
    /\ agentConfig = NoConfig
    /\ pathConfig = PathConvergenceConfig(agentConfig)
    /\ persona = "adventurous"
    /\ chunks = <<>>
    /\ decisionPoints = <<>>
    /\ scenes = <<>>
    /\ choiceSets = <<>>
    /\ consequences = <<>>
    /\ altConsequences = <<>>
    /\ storyGraph = Undefined
    /\ convergencePoints = <<>>
    /\ structure = Undefined
    /\ altGraph = Undefined
    /\ altStructure = Undefined

\* decisionPointDetector.detect(chunks)
DetectLayout ==
    /\ toolStage = "idle"
    /\ detected' = detect(detectorConfig, layoutChunks)
    /\ toolStage' = "detected"
    /\ UNCHANGED <<parserConfig, bookContent, parsedChunks, detectorConfig,
                   layoutChunks>>
    /\ UNCHANGED pipeVars
    /\ UNCHANGED agentVars

NextDetector ==
    \/ DetectLayout

SpecDetector == InitDetector /\ [][NextDetector]_vars

-----------------------------------------------------------------------------
(* DecisionPointDetector.detect called on one short chunk whose sentences  *)
(* hold a pattern of any of the five categories, a choice cue or neither.  *)

AllSentenceKinds ==
    {"none", "cue"} \cup {CategoryTable[c].name : c \in 1..Len(CategoryTable)}

InitAnalyze ==
    /\ toolStage = "idle"
    /\ detectorConfig \in {DetectorConfig(config) : config \in DetectorConfigs}
    /\ layoutChunks \in {LayoutChunks(kinds) :
                            kinds \in UNION {[1..n -> AllSentenceKinds] :
                                                n \in 1..MaxAnalyzed}}
    /\ detected = Null
    /\ ParserIdle
    /\ AgentConstructed
    /\ listening = FALSE
    /\ stage = "idle"
    /\ agentConfig = NoConfig
    /\ pathConfig = PathConvergenceConfig(agentConfig)
    /\ persona = "adventurous"
    /\ chunks = <<>>
    /\ decisionPoints = <<>>
    /\ scenes = <<>>
    /\ choiceSets = <<>>
    /\ consequences = <<>>
    /\ altConsequences = <<>>
    /\ storyGraph = Undefined
    /\ convergencePoints = <<>>
    /\ structure = Undefined
    /\ altGraph = Undefined
    /\ altStructure = Undefined

NextAnalyze ==
    \/ DetectLayout

SpecAnalyze == InitAnalyze /\ [][NextAnalyze]_vars

-----------------------------------------------------------------------------
(* ChoiceGenerator.generate called by the agent on the scenes of detected  *)
(* points of every category, one the template table does not know among    *)
(* them, under config objects with and without a maximum.                  *)

UnknownCategory == "Unlisted Category"

PointCategories == {Categories[c] : c \in 1..Len(Categories)} \cup {UnknownCategory}

\* config objects of the agent: none, maxChoicesPerPoint, maxChoices
ChoiceConfigs ==
    {NoConfig}
        \cup {[maxChoicesPerPoint |-> n] : n \in 2..4}
        \cup {[maxChoices |-> n] : n \in 2..4}

\* points of the given categories, MinPointSpacing apart in the first chunk
CategoryPoints(cs, categories) ==
    [j \in 1..Len(categories) |->
        [DetectedPoint(cs, j - 1) EXCEPT !.category = categories[j]]]

InitChoices ==
    /\ AgentConstructed
    /\ ToolsIdle
    /\ listening = FALSE
    /\ stage = "detected"
    /\ agentConfig \in ChoiceConfigs
    /\ pathConfig = PathConvergenceConfig(agentConfig)
    /\ persona = "adventurous"
    /\ chunks = ParsedChunks(1, FullChunkSentences, "none")
    /\ decisionPoints \in
          {CategoryPoints(chunks, categories) :
              categories \in UNION {[1..n -> PointCategories] : n \in 1..MaxPoints}}
    /\ scenes = <<>>
    /\ choiceSets = <<>>
    /\ consequences = <<>>
    /\ altConsequences = <<>>
    /\ storyGraph = Undefined
    /\ convergencePoints = <<>>
    /\ structure = Undefined
    /\ altGraph = Undefined
    /\ altStructure = Undefined

NextChoices ==
    \/ Summarize
    \/ GenerateChoices
    \/ MapConsequences

SpecChoices == InitChoices /\ [][NextChoices]_vars

-----------------------------------------------------------------------------
(* ConsequenceMapper.map called on choice sets whose choices carry type    *)
(* tags of its tables, a tag of the generator it has no entry for, a tag   *)
(* nobody knows and a name every object inherits; then called again on     *)
(* the same choice sets for another persona.                               *)

MapperTypes ==
    ConsequenceTextTypes \cup {"moral_emotional", "mystery_type", "constructor"}

MapperPersonas == PersonaKeys \cup {"custom"}

MapperChunks == ParsedChunks(1, FullChunkSentences, "none")

\* one scene per detected point, as SceneSummarizer returns them
MapperScenes(m) == summarize(MapperChunks, DetectedPoints(MapperChunks, m))

\* choice sets as ChoiceGenerator.generate shapes them, choice j of the
\* given types dealt to scene ((j - 1) mod m) + 1
TypedChoiceSets(ss, types) ==
    [i \in 1..Len(ss) |->
        LET own_types == Filter(
                [j \in 1..Len(types) |-> [at |-> j, type |-> types[j]]],
                LAMBDA t : ((t.at - 1) % Len(ss)) + 1 = i)
        IN  [id |-> "choices_" \o ss[i].id,
             sceneId |-> ss[i].id,
             decisionPointId |-> ss[i].decisionPointId,
             choices |-> [k \in 1..Len(own_types) |->
                            [id |-> "choice_" \o ss[i].id \o "_" \o ToString(k - 1),
                             type |-> own_types[k].type]]]]

InitMapper ==
    /\ AgentConstructed
    /\ ToolsIdle
    /\ listening = FALSE
    /\ stage = "generated"
    /\ agentConfig = NoConfig
    /\ pathConfig = PathConvergenceConfig(agentConfig)
    /\ persona \in MapperPersonas
    /\ chunks = MapperChunks
    /\ \E n \in 1..MaxMapChoices : \E m \in 1..n :
          /\ decisionPoints = DetectedPoints(MapperChunks, m)
          /\ scenes = MapperScenes(m)
          /\ choiceSets \in {TypedChoiceSets(MapperScenes(m), types) :
                                types \in [1..n -> MapperTypes]}
    /\ consequences = <<>>
    /\ altConsequences = <<>>
    /\ storyGraph = Undefined
    /\ convergencePoints = <<>>
    /\ structure = Undefined
    /\ altGraph = Undefined
    /\ altStructure = Undefined

\* consequenceMapper.map(choices, summarizedScenes, other persona)
MapForOtherPersona ==
    /\ stage = "mapped"
    /\ \E other \in MapperPersonas \ {persona} :
          IF mapThrows(choiceSets, scenes, other)
          THEN /\ stage' = "failed"
               /\ UNCHANGED altConsequences
          ELSE /\ altConsequences' = map(choiceSets, scenes, other)
               /\ stage' = "remapped"
    /\ UNCHANGED <<agentConfig, pathConfig, persona, chunks, decisionPoints, scenes,
                   choiceSets, consequences, storyGraph, convergencePoints, structure,
                   altGraph, altStructure>>
    /\ UNCHANGED agentVars
    /\ UNCHANGED toolVars

NextMapper ==
    \/ MapConsequences
    \/ MapForOtherPersona

SpecMapper == InitMapper /\ [][NextMapper]_vars

-----------------------------------------------------------------------------
(* Properties of the parser.                                               *)

Parsed == toolStage = "parsed"

\* the chunks from chunk i on give the sentences rest, once some leading
\* sentences of each chunk are taken for overlap and removed
RECURSIVE Reconstructs(_, _)
Reconstructs(i, rest) ==
    IF i > Len(parsedChunks) THEN rest = <<>>
    ELSE \E d \in 0..Len(parsedChunks[i].sentences) :
            LET rem == SubSeq(parsedChunks[i].sentences, d + 1,
                              Len(parsedChunks[i].sentences))
            IN  /\ i = 1 => d = 0
                /\ Len(rem) <= Len(rest)
                /\ rem = SubSeq(rest, 1, Len(rem))
                /\ Reconstructs(i + 1, SubSeq(rest, Len(rem) + 1, Len(rest)))

\* C14: the sentences of the chunks, in index order and without the
\* sentences repeated by overlap, are the sentences of the normalized text.
C14_SentencesReconstructed ==
    Parsed => Reconstructs(1, extractSentences(cleanText(bookContent)))

\* the length of the longest start of next that is an end of closed
Carried(closed, next) ==
    LET fits == {k \in 0..Min(Len(closed), Len(next)) :
                    SubSeq(next, 1, k) = SubSeq(closed, Len(closed) - k + 1, Len(closed))}
    IN  CHOOSE k \in fits : \A m \in fits : m <= k

\* C15: the text a chunk carries over from the chunk before it is at most
\* overlapSize characters long.
C15_OverlapBounded ==
    Parsed =>
        \A i \in 1..(Len(parsedChunks) - 1) :
            Carried(parsedChunks[i].content, parsedChunks[i + 1].content)
                <= parserConfig.overlapSize

C15_Witness ==
    /\ Parsed
    /\ \E i \in 1..(Len(parsedChunks) - 1) :
          /\ Len(parsedChunks[i].sentences) >= 2
          /\ Len(JoinText(SliceLast(parsedChunks[i].sentences, 2), <<" ">>))
                > parserConfig.overlapSize
          /\ parserConfig.overlapSize > 0
          /\ Carried(parsedChunks[i].content, parsedChunks[i + 1].content)
                = parserConfig.overlapSize

\* C16: an empty or white-space-only text gives exactly one chunk, whose
\* content is empty.
C16_EmptyTextOneChunk ==
    (Parsed /\ Len(Trim(bookContent)) = 0) =>
        /\ Len(parsedChunks) = 1
        /\ parsedChunks[1].content = <<>>

-----------------------------------------------------------------------------
(* Properties of the detector.                                             *)

Detected == toolStage = "detected"

\* C17: two different returned points of the same chunk are at least three
\* sentences apart.
C17_PointsSpaced ==
    Detected =>
        \A a, b \in 1..Len(detected.points) :
            (a # b /\ detected.points[a].chunkId = detected.points[b].chunkId) =>
                \/ detected.points[a].sentenceIndex - detected.points[b].sentenceIndex >= 3
                \/ detected.points[b].sentenceIndex - detected.points[a].sentenceIndex >= 3

\* two returned points of one chunk whose sentences, and the one between
\* them or next to them, all hold a pattern
C17_Witness ==
    /\ Detected
    /\ \E a, b \in 1..Len(detected.points) :
          /\ a # b
          /\ detected.points[a].chunkId = detected.points[b].chunkId
    /\ \E g \in 1..Len(layoutChunks) :
          /\ Len(layoutChunks[g].sentences) = LayoutChunkLen
          /\ \A j \in 1..LayoutChunkLen : layoutChunks[g].sentences[j] \notin {"none", "cue"}

ConfidenceRank(confidence) ==
    CASE confidence = "high" -> 3
      [] confidence = "medium" -> 2
      [] confidence = "low" -> 1
      [] OTHER -> 0

\* C18: every returned point has a confidence of at least minConfidence.
C18_ConfidenceAtLeastMin ==
    Detected =>
        \A a \in 1..Len(detected.points) :
            ConfidenceRank(detected.points[a].confidence)
                >= ConfidenceRank(detectorConfig.minConfidence)

\* the points detect collected before distributePoints
Collected == CollectPoints(detectorConfig, layoutChunks)

Returned(point) == \E a \in 1..Len(detected.points) : detected.points[a] = point

-----------------------------------------------------------------------------
(* Properties of the choice generator.                                     *)

\* the maximum the agent was configured with, 2 without one
ConfiguredMaximum(config) ==
    IF Has(config, "maxChoicesPerPoint") THEN config.maxChoicesPerPoint
    ELSE IF Has(config, "maxChoices") THEN config.maxChoices
    ELSE 2

\* C20: every scene receives at least 2 choices and at most the configured
\* maximum, which is 2 when none is configured, whatever the category.
C20_ChoiceCardinality ==
    stage = "generated" =>
        /\ Len(choiceSets) = Len(scenes)
        /\ \A i \in 1..Len(choiceSets) :
              /\ Len(choiceSets[i].choices) >= 2
              /\ Len(choiceSets[i].choices) <= ConfiguredMaximum(agentConfig)


-----------------------------------------------------------------------------
(* Properties of the consequence mapper.                                   *)

Mapped == stage \in {"mapped", "remapped"}

\* the neutral default of the mapper for a type it does not know
NeutralDefault(consequence) ==
    /\ consequence.type = "neutral_development"
    /\ consequence.emotionalTone = "neutral"
    /\ consequence.nextSceneModifier = [mood |-> "neutral", pace |-> "normal"]
    /\ consequence.text.template = "default"

\* C21: map never raises, whatever the type tags; it gives every choice
\* set one consequence per choice, in choice order and with the choice's
\* id, and a type outside the vocabulary gets the neutral default.
C21_ConsequenceTotality ==
    /\ stage # "failed"
    /\ Mapped =>
          /\ Len(consequences) = Len(choiceSets)
          /\ \A i \in 1..Len(consequences) :
                /\ consequences[i].choiceSetId = choiceSets[i].id
                /\ Len(consequences[i].consequences) = Len(choiceSets[i].choices)
                /\ \A k \in 1..Len(choiceSets[i].choices) :
                      /\ consequences[i].consequences[k].choiceId
                            = choiceSets[i].choices[k].id
                      /\ choiceSets[i].choices[k].type \notin ConsequenceTextTypes
                            => NeutralDefault(consequences[i].consequences[k])


\* C22: every type tag the generator gives a choice has its own entry in
\* the text table and in the tone table of the mapper: no consequence of a
\* generated choice carries the default text or the default tone.
C22_VocabularySynchronized ==
    Mapped =>
        \A i \in 1..Len(consequences) :
            \A k \in 1..Len(consequences[i].consequences) :
                /\ consequences[i].consequences[k].text.template # "default"
                /\ consequences[i].consequences[k].emotionalTone # "neutral"


\* what a consequence holds besides its text
Outcome(consequence) ==
    <<consequence.type, consequence.emotionalTone, consequence.nextSceneModifier>>

\* C23: the type, tone and scene modifier of a consequence depend on the
\* choice's type tag alone: two choices of one type, in whatever scenes,
\* and one choice mapped for two personas, get the same three values.
C23_OutcomeFromTypeAlone ==
    /\ Mapped =>
          \A i, j \in 1..Len(consequences) :
              \A k \in 1..Len(consequences[i].consequences) :
                  \A l \in 1..Len(consequences[j].consequences) :
                      choiceSets[i].choices[k].type = choiceSets[j].choices[l].type
                          => Outcome(consequences[i].consequences[k])
                                = Outcome(consequences[j].consequences[l])
    /\ stage = "remapped" =>
          /\ Len(altConsequences) = Len(consequences)
          /\ \A i \in 1..Len(consequences) :
                /\ Len(altConsequences[i].consequences) = Len(consequences[i].consequences)
                /\ \A k \in 1..Len(consequences[i].consequences) :
                      Outcome(altConsequences[i].consequences[k])
                          = Outcome(consequences[i].consequences[k])

\* two scenes with a choice of the same known type each, mapped for two
\* personas that style the text differently
C23_Witness ==
    /\ stage = "remapped"
    /\ Len(consequences) = 2
    /\ choiceSets[1].choices[1].type = choiceSets[2].choices[1].type
    /\ choiceSets[1].choices[1].type = "tactical_direct"
    /\ consequences[1].consequences[1].text # altConsequences[1].consequences[1].text
    /\ consequences[1].sceneId # consequences[2].sceneId


-----------------------------------------------------------------------------
(* Properties of the detector's steps on one chunk.                        *)

Kept(kept, point) == \E a \in 1..Len(kept) : kept[a] = point

\* C24: deduplicatePoints never drops a point in favour of a kept point
\* fewer than 3 sentences before it that has a strictly lower confidence
\* (the later point replaces it), and never keeps two points fewer than 3
\* sentences apart.
C24_HigherConfidenceReplaces ==
    Detected =>
        \A g \in 1..Len(layoutChunks) :
            With(MatchedPoints(detectorConfig, layoutChunks[g]), LAMBDA matched :
                With(deduplicatePoints(matched), LAMBDA kept :
                    /\ \A a, b \in 1..Len(kept) :
                          a < b => kept[b].sentenceIndex - kept[a].sentenceIndex >= 3
                    /\ \A c \in 1..Len(matched) : \A a \in 1..Len(kept) :
                          (/\ ~Kept(kept, matched[c])
                           /\ matched[c].sentenceIndex >= kept[a].sentenceIndex
                           /\ matched[c].sentenceIndex - kept[a].sentenceIndex < 3)
                              => ConfidenceRank(matched[c].confidence)
                                    <= ConfidenceRank(kept[a].confidence)))


\* the order of the categories, first to last
PriorityOrder ==
    <<"Moral & Ethical Crossroads", "Strategic or Tactical Choices",
      "Time-Pressure Scenarios", "Relationship & Trust Conflicts",
      "Information & Knowledge Risks">>

\* the categories with a pattern in the context of sentence i, as positions
\* of PriorityOrder
MatchingCategories(chunk, i) ==
    {c \in 1..Len(PriorityOrder) :
        \E j \in ContextWindow(detectorConfig, chunk.sentences, i) :
            chunk.sentences[j] = PriorityOrder[c]}

\* C25: analyzeChunk returns at most one point per sentence, and the point
\* of a sentence whose context matches categories has the first of them
\* in the priority order.
C25_FirstCategoryWins ==
    Detected =>
        \A g \in 1..Len(layoutChunks) :
            With(analyzeChunk(detectorConfig, layoutChunks[g]), LAMBDA points :
                /\ \A a, b \in 1..Len(points) :
                      a # b => points[a].sentenceIndex # points[b].sentenceIndex
                /\ \A a \in 1..Len(points) :
                      With(MatchingCategories(layoutChunks[g], points[a].sentenceIndex),
                           LAMBDA matching :
                              matching # {} =>
                                  /\ points[a].category \in
                                        {PriorityOrder[c] : c \in matching}
                                  /\ \A c \in matching :
                                        PriorityOrder[c] = points[a].category
                                            => \A d \in matching : c <= d))

\* a returned point of a sentence whose context matches two categories,
\* the first of the table not among them
C25_Witness ==
    /\ Detected
    /\ Len(layoutChunks) = 1
    /\ \E a \in 1..Len(detected.points) :
          /\ MatchingCategories(layoutChunks[1], detected.points[a].sentenceIndex)
                = {3, 5}
          /\ detected.points[a].category = "Time-Pressure Scenarios"


-----------------------------------------------------------------------------
(* Properties of cancellation.                                             *)

\* C26: once cancel() has set the state 'cancelled', a run that had started
\* emits no further step:start, step:complete or process:complete event
\* and the state does not become 'completed'.
C26_CancelStopsRun ==
    [][state = "cancelled" =>
          /\ state' # "completed"
          /\ \A p \in Invocations :
                pc[p] # "not_started" =>
                \A n \in (Len(emitted[p]) + 1)..Len(emitted'[p]) :
                    emitted'[p][n] = ProcessError]_vars


-----------------------------------------------------------------------------
(* Properties of the formatted scenes.                                     *)

\* C27: the k-th entry of a formatted scene's nextScenes is the target of
\* the graph edge of its k-th choice, and every entry is the ending or the
\* id of a scene of the structure.
C27_NavigationAgrees ==
    Converged =>
        \A i \in 1..Len(structure.scenes) :
            /\ \A k \in 1..Len(structure.scenes[i].choices) :
                  /\ k <= Len(structure.scenes[i].nextScenes)
                  /\ \A e \in 1..Len(storyGraph.edges) :
                        storyGraph.edges[e].id
                              = "edge_" \o structure.scenes[i].choices[k].id
                            => structure.scenes[i].nextScenes[k] = storyGraph.edges[e].to
            /\ \A n \in 1..Len(structure.scenes[i].nextScenes) :
                  \/ structure.scenes[i].nextScenes[n] = "scene_ending"
                  \/ \E j \in 1..Len(structure.scenes) :
                        structure.scenes[j].id = structure.scenes[i].nextScenes[n]


\* C28: every convergence point lies after a scene of the story, and a
\* non-last scene is flagged a convergence point exactly when
\* shouldConverge holds for it.
C28_OverlayAgreesWithRouting ==
    Converged =>
        /\ \A c \in 1..Len(convergencePoints) :
              convergencePoints[c].afterSceneIndex \in 0..(NumScenes - 1)
        /\ \A i \in 0..(NumScenes - 2) :
              structure.scenes[i + 1].isConvergencePoint
                  <=> shouldConverge(pathConfig, i, NumScenes)


-----------------------------------------------------------------------------
(* Properties of the chunk sizes.                                          *)

\* C29: a chunk that holds more than one sentence is at most maxChunkSize
\* characters long, joining spaces and overlap text counted.
C29_ChunkWithinBudget ==
    Parsed =>
        \A i \in 1..Len(parsedChunks) :
            Len(parsedChunks[i].sentences) > 1
                => Len(parsedChunks[i].content) <= parserConfig.maxChunkSize


-----------------------------------------------------------------------------
(* Properties of the process table.                                        *)

\* C30: an entry that is completed or failed stays as it is until it is
\* deleted, and the events a run emits leave the entries of the other
\* process ids as they are.
C30_ProgressIsOwn ==
    [][\A p \in Invocations :
          /\ (/\ activeProcesses[p] # Null
              /\ activeProcesses[p].status \in {"completed", "failed"})
                => \/ activeProcesses'[p] = activeProcesses[p]
                   \/ activeProcesses'[p] = Null
          /\ \A q \in Invocations \ {p} :
                emitted'[q] # emitted[q] => activeProcesses'[p] = activeProcesses[p]]_vars

====
